---------------------------- MODULE Spec2Model ----------------------------
(***************************************************************************)
(* Verification model of keboola/component-aws-cost-and-usage-reports.     *)
(*                                                                         *)
(* The module holds several specifications over one set of variables:      *)
(*   Spec         Component.run (component.py) over consecutive runs       *)
(*   SpecDedupe   ColumnNormalizer.remove_duplicate_column_names           *)
(*   SpecUnion    get_max_header_normalized / normalize_and_merge_columns  *)
(*   SpecAlign    build_column_aligned_select / create_unified_view        *)
(*   SpecFilter   filter_by_date_range of the CUR 1.0 and CUR 2.0 handlers *)
(*   SpecResolve  retrieve_manifests of the CUR 1.0 and CUR 2.0 handlers   *)
(*   SpecExtract  CUR1ReportHandler._extract_all_zip_files_parallel        *)
(*   SpecPatterns get_csv_patterns of the CUR 1.0 and CUR 2.0 handlers     *)
(*   SpecBulk     DuckDB.load_csv_files_bulk, batch by batch               *)
(*   SpecDetect   ReportVersionDetector.detect_version and                 *)
(*                ReportHandlerFactory.create_handler                      *)
(*   SpecAssembly the assemblyId fallback of retrieve_manifests            *)
(*   SpecRange    the billing period parsers of the two handlers           *)
(*   SpecNormalize ColumnNormalizer.normalize_column_name and the SELECTs  *)
(*                built from the normalized names                          *)
(*   SpecManagerFilter AWSReportManager.filter_manifests_by_date_range     *)
(*   SpecTemp     the temporary archive copies of the extraction workers   *)
(*                                                                         *)
(* Strings are sequences of one-character strings, so that replace, lower, *)
(* re.sub, concatenation and sorting are computed as Python computes them. *)
(***************************************************************************)
EXTENDS Integers, Sequences, FiniteSets, TLC

VARIABLES
    \* ---- Component.run (Spec) ----
    listing,     \* the S3 listing: manifest objects, in listing order
    config,      \* [since_last, start_date]
    stateFile,   \* the persisted state file
    comp,        \* the Component object's fields (self.*)
    pc,          \* position inside Component.run
    run,         \* bookkeeping of the current run (outcome, tables, export)
    runNo,       \* number of the current run
    \* ---- pure-function specifications ----
    fin,         \* the input drawn for the function under check
    fout,        \* the function's output
    fpc          \* position inside the function or handler under check

compVars == <<listing, config, stateFile, comp, pc, run, runNo>>
funVars  == <<fin, fout, fpc>>
vars     == <<listing, config, stateFile, comp, pc, run, runNo, fin, fout, fpc>>

(***************************************************************************)
(* Bounds                                                                  *)
(***************************************************************************)
MaxManifests == 2      \* manifests in one listing
MaxRuns      == 2      \* consecutive runs of the component
MaxCols      == 3      \* column names in one list
MaxArchives  == 3      \* ZIP manifests handed to one extraction

(***************************************************************************)
(* Characters and strings                                                  *)
(***************************************************************************)
\* Python's ord() on the characters the model uses (ASCII).
Code(c) ==
    CASE c = " " -> 32 [] c = "-" -> 45 [] c = "/" -> 47
      [] c = "0" -> 48 [] c = "1" -> 49 [] c = "2" -> 50 [] c = "3" -> 51
      [] c = "4" -> 52 [] c = "5" -> 53 [] c = "6" -> 54 [] c = "7" -> 55
      [] c = "8" -> 56 [] c = "9" -> 57 [] c = ":" -> 58
      [] c = "A" -> 65 [] c = "B" -> 66 [] c = "C" -> 67
      [] c = "_" -> 95
      [] c = "a" -> 97 [] c = "b" -> 98 [] c = "c" -> 99
      [] c = "U+0663" -> 1635

Letters == {"a", "b", "c", "A", "B", "C"}
Digits  == {"0", "1", "2", "3", "4", "5", "6", "7", "8", "9"}

\* decimal digits outside ASCII; "U+0663" stands for the one character
\* ARABIC-INDIC DIGIT THREE
UnicodeDigits == {"U+0663"}

\* str.lower() on one character
LowerChar(c) ==
    CASE c = "A" -> "a" [] c = "B" -> "b" [] c = "C" -> "c" [] OTHER -> c

\* str.lower()
Lower(s) == [i \in 1..Len(s) |-> LowerChar(s[i])]

\* the characters the regular expression [a-zA-Z\d_] matches; in a str
\* pattern \d is every Unicode decimal digit
IsWordChar(c) == c \in Letters \cup Digits \cup UnicodeDigits \cup {"_"}

\* str(int) for a non-negative integer (the f-string's {counter})
DigitChar(d) == <<"0", "1", "2", "3", "4", "5", "6", "7", "8", "9">>[d + 1]

RECURSIVE IntToStr(_)
IntToStr(n) ==
    IF n < 10 THEN <<DigitChar(n)>>
    ELSE IntToStr(n \div 10) \o <<DigitChar(n % 10)>>

\* Python's < on str: lexicographic by code point
RECURSIVE StrLess(_, _)
StrLess(a, b) ==
    IF a = <<>> THEN b # <<>>
    ELSE IF b = <<>> THEN FALSE
    ELSE IF Code(Head(a)) < Code(Head(b)) THEN TRUE
    ELSE IF Code(Head(a)) > Code(Head(b)) THEN FALSE
    ELSE StrLess(Tail(a), Tail(b))

\* sorted(list(S)) / list(S).sort() for a set S of strings
RECURSIVE SortedList(_)
SortedList(S) ==
    IF S = {} THEN <<>>
    ELSE LET m == CHOOSE x \in S : \A y \in S \ {x} : StrLess(x, y)
         IN  <<m>> \o SortedList(S \ {m})

Range(seq) == {seq[i] : i \in DOMAIN seq}

IsSorted(seq) ==
    \A i \in 1..(Len(seq) - 1) : StrLess(seq[i], seq[i + 1])

\* all sequences over S of length at most n
SeqsUpTo(S, n) == UNION {[1..k -> S] : k \in 0..n}

(***************************************************************************)
(* ColumnNormalizer (column_normalizer.py)                                 *)
(***************************************************************************)
\* column_name.replace("/", "__")
RECURSIVE ReplaceSlash(_)
ReplaceSlash(s) ==
    IF s = <<>> THEN <<>>
    ELSE (IF Head(s) = "/" THEN <<"_", "_">> ELSE <<Head(s)>>)
         \o ReplaceSlash(Tail(s))

\* re.sub("[^a-zA-Z\\d_]", "_", normalized)
SubSpecial(s) == [i \in 1..Len(s) |-> IF IsWordChar(s[i]) THEN s[i] ELSE "_"]

\* the body of the loop of normalize_column_names_for_kbc
normalize_column_name(column_name) == SubSpecial(ReplaceSlash(column_name))

normalize_column_names_for_kbc(column_names) ==
    [i \in 1..Len(column_names) |-> normalize_column_name(column_names[i])]

\* the loop of remove_duplicate_column_names: unique_names, seen_lowercase and
\* duplicate_counters are carried through the remaining names
RECURSIVE DedupeLoop(_, _, _, _)
DedupeLoop(names, unique_names, seen_lowercase, duplicate_counters) ==
    IF names = <<>> THEN unique_names
    ELSE LET name == Head(names)
             lowercase_name == Lower(name)
         IN  IF lowercase_name \in seen_lowercase
             THEN LET counter ==
                          (IF lowercase_name \in DOMAIN duplicate_counters
                           THEN duplicate_counters[lowercase_name] ELSE 0) + 1
                      unique_name == name \o <<"_">> \o IntToStr(counter)
                  IN  DedupeLoop(Tail(names),
                                 Append(unique_names, unique_name),
                                 seen_lowercase,
                                 (lowercase_name :> counter) @@ duplicate_counters)
             ELSE DedupeLoop(Tail(names),
                             Append(unique_names, name),
                             seen_lowercase \cup {lowercase_name},
                             duplicate_counters)

\* a dedupe that writes the lower-cased name in front of the suffix
dedupe_lowercasing_duplicates(column_names) ==
    LET unique_names == DedupeLoop(column_names, <<>>, {}, <<>>)
    IN  [i \in 1..Len(unique_names) |->
            IF unique_names[i] = column_names[i] THEN unique_names[i]
            ELSE Lower(unique_names[i])]

remove_duplicate_column_names(column_names) ==
    DedupeLoop(column_names, <<>>, {}, <<>>)

\* manifest["columns"] is a sequence of [category, name]
get_manifest_normalized_columns(manifest_columns) ==
    LET raw == [i \in 1..Len(manifest_columns) |->
                   manifest_columns[i].category \o <<"/">> \o manifest_columns[i].name]
    IN  remove_duplicate_column_names(normalize_column_names_for_kbc(raw))

\* normalize_and_merge_columns without the update from historical_columns
merge_dropping_historical(current_columns, historical_columns) ==
    SortedList(Range(remove_duplicate_column_names(
                         normalize_column_names_for_kbc(current_columns))))

normalize_and_merge_columns(current_columns, historical_columns) ==
    LET normalized == remove_duplicate_column_names(
                          normalize_column_names_for_kbc(current_columns))
    IN  SortedList(Range(normalized) \cup Range(historical_columns))

\* the loop of get_max_header_normalized over the manifests' column lists
RECURSIVE MaxHeaderLoop(_, _)
MaxHeaderLoop(manifests, header) ==
    IF manifests = <<>> THEN header
    ELSE LET norm_cols == Range(get_manifest_normalized_columns(Head(manifests)))
         IN  IF ~(norm_cols \subseteq Range(header))
             THEN MaxHeaderLoop(Tail(manifests),
                                SortedList(norm_cols \cup Range(header)))
             ELSE MaxHeaderLoop(Tail(manifests), header)

get_max_header_normalized(manifests, current_header) ==
    MaxHeaderLoop(manifests, current_header)

\* target_column.replace("__", "/"): left to right, non-overlapping
RECURSIVE Denormalize(_)
Denormalize(s) ==
    IF Len(s) >= 2 /\ s[1] = "_" /\ s[2] = "_"
    THEN <<"/">> \o Denormalize(SubSeq(s, 3, Len(s)))
    ELSE IF s = <<>> THEN <<>>
    ELSE <<Head(s)>> \o Denormalize(Tail(s))

(***************************************************************************)
(* Idle values: a specification fixes the variables it does not use.       *)
(***************************************************************************)
NoState == [last_file_timestamp |-> <<>>, last_report_id |-> "None",
            report_header |-> <<>>]

CompIdle ==
    /\ listing = <<>>
    /\ config = [since_last |-> FALSE]
    /\ stateFile = NoState
    /\ comp = <<>>
    /\ pc = "idle"
    /\ run = <<>>
    /\ runNo = 0

FunIdle ==
    /\ fin = <<>>
    /\ fout = <<>>
    /\ fpc = "idle"

(***************************************************************************)
(* SpecDedupe: remove_duplicate_column_names on every list of at most      *)
(* MaxCols names of NamePool.                                              *)
(***************************************************************************)
NamePool == { <<"a">>, <<"A">>, <<"a", "_", "1">>, <<"b">> }

InitDedupe ==
    /\ CompIdle
    /\ fin \in SeqsUpTo(NamePool, MaxCols)
    /\ fout = <<>>
    /\ fpc = "input"

DedupeCall ==
    /\ fpc = "input"
    /\ fout' = remove_duplicate_column_names(fin)
    /\ fpc' = "done"
    /\ UNCHANGED <<fin, listing, config, stateFile, comp, pc, run, runNo>>

SpecDedupe == InitDedupe /\ [][DedupeCall]_vars

\* C5: the output of remove_duplicate_column_names is case-insensitively
\* unique: no two output entries are equal when lower-cased.
C5_DedupeCaseInsensitiveUnique ==
    fpc = "done" =>
        \A i, j \in 1..Len(fout) : i # j => Lower(fout[i]) # Lower(fout[j])

\* the input of C5's failing case: "a", "a_1" and a second "a"
C5_SuffixCollisionInput ==
    /\ fpc = "done"
    /\ fin = << <<"a">>, <<"a", "_", "1">>, <<"a">> >>
    /\ fout = << <<"a">>, <<"a", "_", "1">>, <<"a", "_", "1">> >>

\* the number of earlier names of the input that are the i-th name when
\* lower-cased
EarlierCollisions(i) ==
    Cardinality({ j \in 1..(i - 1) : Lower(fin[j]) = Lower(fin[i]) })

\* C22: dedupe keeps the length and the order of its input, leaves the first
\* case-insensitive occurrence of a name unchanged and gives the k-th later
\* occurrence its own spelling followed by "_k", k counted per base name.
C22_DedupeSuffixScheme ==
    fpc = "done" =>
        /\ Len(fout) = Len(fin)
        /\ \A i \in 1..Len(fin) :
              fout[i] = IF EarlierCollisions(i) = 0 THEN fin[i]
                        ELSE fin[i] \o <<"_">> \o IntToStr(EarlierCollisions(i))

\* ["a", "A", "a"] became ["a", "A_1", "a_2"]
C22_ThreeSpellingsOfOneName ==
    /\ fpc = "done"
    /\ fin = << <<"a">>, <<"A">>, <<"a">> >>
    /\ fout = << <<"a">>, <<"A", "_", "1">>, <<"a", "_", "2">> >>

(***************************************************************************)
(* SpecUnion: the run's header (self.last_header) under the two schema     *)
(* unions of component.py.  The header starts empty (cold start, component *)
(* line 57) and is only ever replaced by the result of                     *)
(* get_max_header_normalized (individual path, lines 204-206) or of        *)
(* normalize_and_merge_columns (bulk path, lines 185-188); the state file  *)
(* hands it from one run to the next.                                      *)
(*   fin  = the last call: [op, before, cols]                              *)
(*   fout = the header                                                     *)
(***************************************************************************)
Col(category, name) == [category |-> category, name |-> name]

\* the column lists manifests declare
ManifestColsPool ==
    { << Col(<<"a">>, <<"b">>) >>,
      << Col(<<"a">>, <<"b">>), Col(<<"c">>, <<"a">>) >>,
      << Col(<<"a">>, <<"B">>), Col(<<"a">>, <<"b">>) >>,
      << Col(<<"b">>, <<":", "c">>) >> }

\* the raw column lists of a loaded table
TableColsPool ==
    { << <<"a", "/", "b">> >>,
      << <<"c", "/", "a">>, <<"a", "/", "b">> >>,
      << <<"b", " ", "c">>, <<"B", ":", "c">> >> }

InitUnion ==
    /\ CompIdle
    /\ fin = [op |-> "none", before |-> <<>>, cols |-> <<>>]
    /\ fout = <<>>
    /\ fpc = "input"

\* component.py 204-206: self.last_header = get_max_header_normalized(...)
UnionIndividual ==
    /\ fpc = "input"
    /\ \E manifests \in SeqsUpTo(ManifestColsPool, MaxManifests) :
          /\ fin' = [op |-> "individual", before |-> fout, cols |-> manifests]
          /\ fout' = get_max_header_normalized(manifests, fout)
    /\ UNCHANGED <<fpc, listing, config, stateFile, comp, pc, run, runNo>>

\* component.py 184-188: self.last_header = normalize_and_merge_columns(...)
UnionBulk ==
    /\ fpc = "input"
    /\ \E current_columns \in TableColsPool :
          /\ fin' = [op |-> "bulk", before |-> fout, cols |-> current_columns]
          /\ fout' = normalize_and_merge_columns(current_columns, fout)
    /\ UNCHANGED <<fpc, listing, config, stateFile, comp, pc, run, runNo>>

SpecUnion == InitUnion /\ [][UnionIndividual \/ UnionBulk]_vars

\* the normalized and deduplicated columns the last call was given
UnionGiven ==
    IF fin.op = "individual"
    THEN UNION { Range(get_manifest_normalized_columns(fin.cols[i])) :
                    i \in 1..Len(fin.cols) }
    ELSE Range(remove_duplicate_column_names(
                   normalize_column_names_for_kbc(fin.cols)))

NoAlias  == <<>>
NoColumn == <<>>

ColumnExpr(c, t) == [expr |-> "column", column |-> c, alias |-> t]
NullExpr(t)      == [expr |-> "null", column |-> NoColumn, alias |-> t]

\* build_column_aligned_select that looks the target name up as it is
aligned_select_without_denormalizing(target_columns, source_columns) ==
    [i \in 1..Len(target_columns) |->
        IF target_columns[i] \in source_columns
        THEN ColumnExpr(target_columns[i], NoAlias)
        ELSE NullExpr(target_columns[i])]

build_column_aligned_select(target_columns, source_columns) ==
    [i \in 1..Len(target_columns) |->
        LET target_column   == target_columns[i]
            original_column == Denormalize(target_column)
        IN  IF original_column \in source_columns
            THEN ColumnExpr(original_column, NoAlias)
            ELSE NullExpr(target_column)]

\* the select_parts of create_unified_view
create_unified_view_select(final_columns, current_columns) ==
    [i \in 1..Len(final_columns) |->
        LET col          == final_columns[i]
            original_col == Denormalize(col)
        IN  IF original_col \in current_columns
            THEN ColumnExpr(original_col, col)
            ELSE NullExpr(col)]

\* normalized target names and the raw columns a source may hold
TargetPool == { <<"a", "_", "_", "b">>, <<"c">>, <<"b", "_", "c">> }
SourcePool == { <<"a", "/", "b">>, <<"c">>, <<"b", ":", "c">> }

InitAlign ==
    /\ CompIdle
    /\ fin \in [fn : {"build_column_aligned_select", "create_unified_view"},
                target : SeqsUpTo(TargetPool, MaxCols),
                source : SUBSET SourcePool]
    /\ fout = <<>>
    /\ fpc = "input"

AlignCall ==
    /\ fpc = "input"
    /\ fout' = IF fin.fn = "build_column_aligned_select"
               THEN build_column_aligned_select(fin.target, fin.source)
               ELSE create_unified_view_select(fin.target, fin.source)
    /\ fpc' = "done"
    /\ UNCHANGED <<fin, listing, config, stateFile, comp, pc, run, runNo>>

SpecAlign == InitAlign /\ [][AlignCall]_vars

\* C7 (as claimed): one select expression per target column, in target order,
\* the source column when the de-normalized target is available and NULL
\* otherwise, and every expression aliased to the target name.
C7_EveryExpressionAliased ==
    fpc = "done" =>
        /\ Len(fout) = Len(fin.target)
        /\ \A i \in 1..Len(fout) :
              /\ fout[i].alias = fin.target[i]
              /\ IF Denormalize(fin.target[i]) \in fin.source
                 THEN fout[i].expr = "column"
                      /\ fout[i].column = Denormalize(fin.target[i])
                 ELSE fout[i].expr = "null"

\* C7 (amended): one select expression per target column, in target order; a
\* NULL expression is aliased to the target name; a column expression names
\* the de-normalized target and is aliased to the target name by
\* create_unified_view, and carries no alias in build_column_aligned_select.
C7_AlignSelect ==
    fpc = "done" =>
        /\ Len(fout) = Len(fin.target)
        /\ \A i \in 1..Len(fout) :
              IF Denormalize(fin.target[i]) \in fin.source
              THEN /\ fout[i].expr = "column"
                   /\ fout[i].column = Denormalize(fin.target[i])
                   /\ fout[i].alias = IF fin.fn = "create_unified_view"
                                      THEN fin.target[i] ELSE NoAlias
              ELSE /\ fout[i].expr = "null"
                   /\ fout[i].alias = fin.target[i]

\* a select list of build_column_aligned_select that holds both a column found
\* through de-normalization and a NULL
C7_AlignedMixed ==
    /\ fpc = "done"
    /\ fin.fn = "build_column_aligned_select"
    /\ \E i, j \in 1..Len(fout) :
          /\ fout[i].expr = "column" /\ fout[i].column # fin.target[i]
          /\ fout[j].expr = "null"

(***************************************************************************)
(* Dates (datetime.date, calendar.monthrange, datetime.strptime,           *)
(* date.fromisocalendar as the handlers use them)                          *)
(***************************************************************************)
Date(y, m, d) == [year |-> y, month |-> m, day |-> d]

\* the None of a date that could not be parsed (no valid date has year 0)
NoDate == [year |-> 0, month |-> 0, day |-> 0]

IsLeap(year) == (year % 4 = 0 /\ year % 100 # 0) \/ year % 400 = 0

\* a month length that takes every fourth year for a leap year
days_in_month_julian(year, month) ==
    CASE month = 2 -> (IF year % 4 = 0 THEN 29 ELSE 28)
      [] month \in {4, 6, 9, 11} -> 30
      [] OTHER -> 31

\* calendar.monthrange(year, month)[1]
DaysInMonth(year, month) ==
    CASE month = 2 -> (IF IsLeap(year) THEN 29 ELSE 28)
      [] month \in {4, 6, 9, 11} -> 30
      [] OTHER -> 31

\* the dates datetime(year, month, day) accepts; any other raises ValueError
ValidDate(y, m, d) ==
    /\ y \in 1..9999
    /\ m \in 1..12
    /\ d \in 1..DaysInMonth(y, m)

\* date.__le__: (year, month, day) compared in this order
DateLE(a, b) ==
    \/ a.year < b.year
    \/ a.year = b.year /\ a.month < b.month
    \/ a.year = b.year /\ a.month = b.month /\ a.day <= b.day

DaysBeforeYear(year) ==
    (year - 1) * 365 + (year - 1) \div 4 - (year - 1) \div 100 + (year - 1) \div 400

RECURSIVE DaysBeforeMonth(_, _)
DaysBeforeMonth(year, month) ==
    IF month = 1 THEN 0
    ELSE DaysBeforeMonth(year, month - 1) + DaysInMonth(year, month - 1)

\* date.toordinal(): 1 for 0001-01-01
ToOrdinal(d) == DaysBeforeYear(d.year) + DaysBeforeMonth(d.year, d.month) + d.day

\* date.fromordinal()
FromOrdinal(n) ==
    LET y == CHOOSE yy \in (n \div 366)..(n \div 365 + 1) :
                 yy >= 1 /\ DaysBeforeYear(yy) < n /\ n <= DaysBeforeYear(yy + 1)
        r == n - DaysBeforeYear(y)
        m == CHOOSE mm \in 1..12 :
                 DaysBeforeMonth(y, mm) < r
                 /\ r <= DaysBeforeMonth(y, mm) + DaysInMonth(y, mm)
    IN  Date(y, m, r - DaysBeforeMonth(y, m))

\* date.weekday(): Monday is 0
Weekday(d) == (ToOrdinal(d) + 6) % 7

DigitVal(c) ==
    CASE c = "0" -> 0 [] c = "1" -> 1 [] c = "2" -> 2 [] c = "3" -> 3
      [] c = "4" -> 4 [] c = "5" -> 5 [] c = "6" -> 6 [] c = "7" -> 7
      [] c = "8" -> 8 [] c = "9" -> 9

AllDigits(s) == \A i \in 1..Len(s) : s[i] \in Digits

\* int() of a string of digits
RECURSIVE ToInt(_)
ToInt(s) ==
    IF s = <<>> THEN 0
    ELSE 10 * ToInt(SubSeq(s, 1, Len(s) - 1)) + DigitVal(s[Len(s)])

\* the date of three numbers, or NoDate where datetime raises ValueError
DateOrNone(y, m, d) == IF ValidDate(y, m, d) THEN Date(y, m, d) ELSE NoDate

\* datetime.strptime(s, "%Y%m%d"), NoDate for ValueError.  Exact for strings of
\* eight characters and for strings holding a character that is no digit (the
\* strings the pools hold); strptime also reads one-digit months and days.
strptime_Ymd(s) ==
    IF Len(s) = 8 /\ AllDigits(s)
    THEN DateOrNone(ToInt(SubSeq(s, 1, 4)), ToInt(SubSeq(s, 5, 6)),
                    ToInt(SubSeq(s, 7, 8)))
    ELSE NoDate

\* re.match(r"^\d{4}-\d{2}-\d{2}$", period)
MatchDaily(p) ==
    /\ Len(p) = 10
    /\ AllDigits(SubSeq(p, 1, 4)) /\ p[5] = "-"
    /\ AllDigits(SubSeq(p, 6, 7)) /\ p[8] = "-"
    /\ AllDigits(SubSeq(p, 9, 10))

\* re.match(r"^\d{4}-\d{2}$", period)
MatchMonthly(p) ==
    /\ Len(p) = 7
    /\ AllDigits(SubSeq(p, 1, 4)) /\ p[5] = "-"
    /\ AllDigits(SubSeq(p, 6, 7))

\* re.match(r"^\d{4}$", period)
MatchYearly(p) == Len(p) = 4 /\ AllDigits(p)

\* "W" in period
ContainsW(p) == \E i \in 1..Len(p) : p[i] = "W"

\* re.match(r"^(\d{4})W(\d{2})$", period)
MatchWeekly(p) ==
    /\ Len(p) = 7
    /\ AllDigits(SubSeq(p, 1, 4)) /\ p[5] = "W"
    /\ AllDigits(SubSeq(p, 6, 7))

\* the Monday of ISO week 1 of a year (datetime._isoweek1monday)
IsoWeek1Monday(year) ==
    LET firstday     == ToOrdinal(Date(year, 1, 1))
        firstweekday == (firstday + 6) % 7
        week1monday  == firstday - firstweekday
    IN  IF firstweekday > 3 THEN week1monday + 7 ELSE week1monday

\* the (year, week) pairs date.fromisocalendar accepts
ValidIsoWeek(year, week) ==
    /\ year \in 1..9999
    /\ \/ week \in 1..52
       \/ /\ week = 53
          /\ LET first_weekday == ToOrdinal(Date(year, 1, 1)) % 7
             IN  first_weekday = 4 \/ (first_weekday = 3 /\ IsLeap(year))

\* weeks counted from the Monday on or before January 1st, whatever the
\* weekday of January 1st
fromisocalendar_from_jan1(year, week, day) ==
    IF ValidIsoWeek(year, week) /\ day \in 1..7
    THEN LET firstday == ToOrdinal(Date(year, 1, 1))
             d == FromOrdinal(firstday - ((firstday + 6) % 7)
                              + (week - 1) * 7 + (day - 1))
         IN  IF d.year \in 1..9999 THEN d ELSE NoDate
    ELSE NoDate

\* date.fromisocalendar(year, week, day), NoDate for ValueError (an invalid
\* week, or a day after 9999-12-31)
fromisocalendar(year, week, day) ==
    IF ValidIsoWeek(year, week) /\ day \in 1..7
    THEN LET d == FromOrdinal(IsoWeek1Monday(year) + (week - 1) * 7 + (day - 1))
         IN  IF d.year \in 1..9999 THEN d ELSE NoDate
    ELSE NoDate

NoRange == [start |-> NoDate, end |-> NoDate]

\* a range parser that hands out whatever its branch computed, a date the
\* calendar does not have or a week without its Sunday included
parse_range_unchecked(period) ==
    IF MatchDaily(period)
    THEN LET date_obj == Date(ToInt(SubSeq(period, 1, 4)),
                              ToInt(SubSeq(period, 6, 7)),
                              ToInt(SubSeq(period, 9, 10)))
         IN  [start |-> date_obj, end |-> date_obj]
    ELSE IF MatchMonthly(period)
    THEN LET year  == ToInt(SubSeq(period, 1, 4))
             month == ToInt(SubSeq(period, 6, 7))
         IN  [start |-> Date(year, month, 1),
              end   |-> Date(year, month, DaysInMonth(year, month))]
    ELSE IF MatchYearly(period)
    THEN [start |-> Date(ToInt(period), 1, 1), end |-> Date(ToInt(period), 12, 31)]
    ELSE IF ContainsW(period) /\ MatchWeekly(period)
    THEN [start |-> fromisocalendar(ToInt(SubSeq(period, 1, 4)),
                                    ToInt(SubSeq(period, 6, 7)), 1),
          end   |-> fromisocalendar(ToInt(SubSeq(period, 1, 4)),
                                    ToInt(SubSeq(period, 6, 7)), 7)]
    ELSE NoRange

\* CUR2ReportHandler._parse_billing_period_range: a ValueError raised by a
\* branch is caught (line 353) and (None, None) returned
parse_billing_period_range(period) ==
    IF MatchDaily(period)
    THEN LET date_obj == DateOrNone(ToInt(SubSeq(period, 1, 4)),
                                    ToInt(SubSeq(period, 6, 7)),
                                    ToInt(SubSeq(period, 9, 10)))
         IN  [start |-> date_obj, end |-> date_obj]
    ELSE IF MatchMonthly(period)
    THEN LET year  == ToInt(SubSeq(period, 1, 4))
             month == ToInt(SubSeq(period, 6, 7))
         IN  IF ValidDate(year, month, 1)
             THEN [start |-> Date(year, month, 1),
                   end   |-> Date(year, month, DaysInMonth(year, month))]
             ELSE NoRange
    ELSE IF MatchYearly(period)
    THEN LET year == ToInt(period)
         IN  IF ValidDate(year, 1, 1)
             THEN [start |-> Date(year, 1, 1), end |-> Date(year, 12, 31)]
             ELSE NoRange
    ELSE IF ContainsW(period) /\ MatchWeekly(period)
    THEN LET year == ToInt(SubSeq(period, 1, 4))
             week == ToInt(SubSeq(period, 6, 7))
             start_date == fromisocalendar(year, week, 1)
             end_date   == fromisocalendar(year, week, 7)
         IN  IF start_date # NoDate /\ end_date # NoDate
             THEN [start |-> start_date, end |-> end_date]
             ELSE NoRange
    ELSE NoRange

(***************************************************************************)
(* filter_by_date_range of the two handlers                                *)
(* A manifest is [assemblyId, period, billingPeriod]; billingPeriod is the *)
(* dict of the manifest body (a function on a subset of {"start","end"}).  *)
(* A datetime is [year, month, day, hour].                                 *)
(***************************************************************************)
DateTime(y, m, d, h) == [year |-> y, month |-> m, day |-> d, hour |-> h]
NoDateTime == [year |-> 0, month |-> 0, day |-> 0, hour |-> 0]

\* datetime.date()
DateOf(dt) == Date(dt.year, dt.month, dt.day)

\* dict.get(key, default)
DictGet(dict, key, default) == IF key \in DOMAIN dict THEN dict[key] ELSE default

\* s.split("T")[0]
RECURSIVE BeforeT(_)
BeforeT(s) ==
    IF s = <<>> \/ Head(s) = "T" THEN <<>>
    ELSE <<Head(s)>> \o BeforeT(Tail(s))

\* an overlap test that drops a period ending on the day the range begins
overlaps_excluding_touching_end(period_start, period_end, since_date, until_date) ==
    ~DateLE(period_end, since_date) /\ DateLE(period_start, until_date)

\* period_end >= since_dt.date() and period_start <= until_dt.date()
PeriodOverlaps(period_start, period_end, since_date, until_date) ==
    DateLE(since_date, period_end) /\ DateLE(period_start, until_date)

\* the loop of CUR1ReportHandler.filter_by_date_range
RECURSIVE Cur1FilterLoop(_, _, _, _)
Cur1FilterLoop(manifests, since_dt, until_dt, filtered_manifests) ==
    IF manifests = <<>> THEN filtered_manifests
    ELSE
      LET manifest         == Head(manifests)
          billing_period   == manifest.billingPeriod
          period_start_str == DictGet(billing_period, "start", <<>>)
          period_end_str   == DictGet(billing_period, "end", <<>>)
          period_start     == strptime_Ymd(BeforeT(period_start_str))
          period_end       == strptime_Ymd(BeforeT(period_end_str))
          keep ==
              /\ DOMAIN billing_period # {}
              /\ period_start_str # <<>> /\ period_end_str # <<>>
              /\ period_start # NoDate /\ period_end # NoDate
              /\ PeriodOverlaps(period_start, period_end,
                                DateOf(since_dt), DateOf(until_dt))
      IN  Cur1FilterLoop(Tail(manifests), since_dt, until_dt,
                         IF keep THEN Append(filtered_manifests, manifest)
                         ELSE filtered_manifests)

cur1_filter_by_date_range(manifests, since_dt, until_dt) ==
    IF since_dt = NoDateTime \/ until_dt = NoDateTime THEN manifests
    ELSE Cur1FilterLoop(manifests, since_dt, until_dt, <<>>)

\* the loop of CUR2ReportHandler.filter_by_date_range
RECURSIVE Cur2FilterLoop(_, _, _, _)
Cur2FilterLoop(manifests, since_dt, until_dt, filtered_manifests) ==
    IF manifests = <<>> THEN filtered_manifests
    ELSE
      LET manifest == Head(manifests)
          period   == manifest.period
          range    == parse_billing_period_range(period)
          keep ==
              /\ period # <<>>
              /\ range.start # NoDate /\ range.end # NoDate
              /\ PeriodOverlaps(range.start, range.end,
                                DateOf(since_dt), DateOf(until_dt))
      IN  Cur2FilterLoop(Tail(manifests), since_dt, until_dt,
                         IF keep THEN Append(filtered_manifests, manifest)
                         ELSE filtered_manifests)

cur2_filter_by_date_range(manifests, since_dt, until_dt) ==
    IF since_dt = NoDateTime \/ until_dt = NoDateTime THEN manifests
    ELSE Cur2FilterLoop(manifests, since_dt, until_dt, <<>>)

(***************************************************************************)
(* SpecFilter: filter_by_date_range on every list of at most MaxManifests  *)
(* manifests of the handler's pool and every since/until of the pools.     *)
(***************************************************************************)
\* "%04d" and "%02d"
Y4(n) == <<DigitChar(n \div 1000), DigitChar((n \div 100) % 10),
           DigitChar((n \div 10) % 10), DigitChar(n % 10)>>
D2(n) == <<DigitChar(n \div 10), DigitChar(n % 10)>>

\* a billingPeriod bound of a CUR 1.0 manifest, "20240101T000000.000Z"
Cur1Stamp(y, m, d) ==
    Y4(y) \o D2(m) \o D2(d)
    \o <<"T", "0", "0", "0", "0", "0", "0", ".", "0", "0", "0", "Z">>

BillingPeriod(start, end) == ("start" :> start) @@ ("end" :> end)

FilterManifest(id, period, billingPeriod) ==
    [assemblyId |-> id, period |-> period, billingPeriod |-> billingPeriod]

Cur1FilterPool ==
    { FilterManifest("jan", <<>>,
          BillingPeriod(Cur1Stamp(2024, 1, 1), Cur1Stamp(2024, 1, 31))),
      FilterManifest("feb", <<>>,
          BillingPeriod(Cur1Stamp(2024, 2, 1), Cur1Stamp(2024, 2, 29))),
      FilterManifest("nobp", <<>>, <<>>),
      FilterManifest("noend", <<>>, ("start" :> Cur1Stamp(2024, 1, 1))),
      FilterManifest("baddate", <<>>,
          BillingPeriod(Cur1Stamp(2024, 1, 1), Cur1Stamp(2024, 2, 30))) }

Cur2FilterPool ==
    { FilterManifest("jan", Y4(2024) \o <<"-">> \o D2(1), <<>>),
      FilterManifest("feb", Y4(2024) \o <<"-">> \o D2(2), <<>>),
      FilterManifest("day", Y4(2024) \o <<"-">> \o D2(1) \o <<"-">> \o D2(31), <<>>),
      FilterManifest("week", Y4(2024) \o <<"W">> \o D2(5), <<>>),
      FilterManifest("m13", Y4(2024) \o <<"-">> \o D2(13), <<>>),
      FilterManifest("none", <<>>, <<>>) }

SincePool == { DateTime(2024, 1, 31, 0), DateTime(2024, 2, 1, 12), NoDateTime }
UntilPool == { DateTime(2024, 1, 31, 12), DateTime(2024, 2, 29, 0) }

InitFilter ==
    /\ CompIdle
    /\ fin \in
         [handler : {"cur1"}, manifests : SeqsUpTo(Cur1FilterPool, MaxManifests),
          since_dt : SincePool, until_dt : UntilPool]
         \cup
         [handler : {"cur2"}, manifests : SeqsUpTo(Cur2FilterPool, MaxManifests),
          since_dt : SincePool, until_dt : UntilPool]
    /\ fout = <<>>
    /\ fpc = "input"

FilterCall ==
    /\ fpc = "input"
    /\ fout' = IF fin.handler = "cur1"
               THEN cur1_filter_by_date_range(fin.manifests, fin.since_dt, fin.until_dt)
               ELSE cur2_filter_by_date_range(fin.manifests, fin.since_dt, fin.until_dt)
    /\ fpc' = "done"
    /\ UNCHANGED <<fin, listing, config, stateFile, comp, pc, run, runNo>>

SpecFilter == InitFilter /\ [][FilterCall]_vars

\* the inclusive period of a manifest as its handler reads it: the billingPeriod
\* bounds of the body (CUR 1.0), the range of the period token (CUR 2.0);
\* NoRange when it is missing or does not parse
ManifestPeriod(handler, m) ==
    IF handler = "cur1"
    THEN IF {"start", "end"} \subseteq DOMAIN m.billingPeriod
            /\ strptime_Ymd(BeforeT(m.billingPeriod["start"])) # NoDate
            /\ strptime_Ymd(BeforeT(m.billingPeriod["end"])) # NoDate
         THEN [start |-> strptime_Ymd(BeforeT(m.billingPeriod["start"])),
               end   |-> strptime_Ymd(BeforeT(m.billingPeriod["end"]))]
         ELSE NoRange
    ELSE parse_billing_period_range(m.period)

\* periodEnd >= since AND periodStart <= until, in days
C8_Kept(m) ==
    LET p == ManifestPeriod(fin.handler, m)
    IN  /\ p # NoRange
        /\ ToOrdinal(p.end) >= ToOrdinal(DateOf(fin.since_dt))
        /\ ToOrdinal(p.start) <= ToOrdinal(DateOf(fin.until_dt))

\* C8: given since and until, filter_by_date_range of either handler returns,
\* in input order, exactly the manifests whose inclusive period satisfies
\* periodEnd >= since AND periodStart <= until; a manifest whose period is
\* missing or unparseable is dropped.
C8_FilterByDateRange ==
    (fpc = "done" /\ fin.since_dt # NoDateTime /\ fin.until_dt # NoDateTime) =>
        fout = SelectSeq(fin.manifests, C8_Kept)

\* a period ending on the day since begins is kept, and a manifest without a
\* parseable period is dropped, in one call
C8_TouchingKeptUnparseableDropped ==
    /\ fpc = "done"
    /\ fin.since_dt # NoDateTime
    /\ \E i \in 1..Len(fin.manifests) :
          /\ ManifestPeriod(fin.handler, fin.manifests[i]) # NoRange
          /\ ManifestPeriod(fin.handler, fin.manifests[i]).end = DateOf(fin.since_dt)
          /\ fin.manifests[i] \in Range(fout)
    /\ \E i \in 1..Len(fin.manifests) :
          /\ ManifestPeriod(fin.handler, fin.manifests[i]) = NoRange
          /\ fin.manifests[i] \notin Range(fout)

(***************************************************************************)
(* retrieve_manifests of the two handlers                                  *)
(* An S3 object is [Key, LastModified, body]; body is what reading and     *)
(* parsing the object gives: "ok", "unreadable" (_read_s3_file_contents    *)
(* raises RuntimeError) or "bad_json" (json.loads raises).  A retrieved    *)
(* manifest keeps the key it was read from, last_modified, period and      *)
(* format_version.  The result is [raised, manifests]: an exception that   *)
(* leaves retrieve_manifests returns no list.                              *)
(***************************************************************************)
\* s.split(sep) for a separator of one character
RECURSIVE Split(_, _)
Split(s, sep) ==
    IF \A i \in 1..Len(s) : s[i] # sep THEN <<s>>
    ELSE LET i == CHOOSE i \in 1..Len(s) :
                      s[i] = sep /\ \A j \in 1..(i - 1) : s[j] # sep
         IN  <<SubSeq(s, 1, i - 1)>> \o Split(SubSeq(s, i + 1, Len(s)), sep)

\* s[i:].startswith(sub), i counting from 1
MatchesAt(s, sub, i) ==
    /\ i + Len(sub) - 1 <= Len(s)
    /\ SubSeq(s, i, i + Len(sub) - 1) = sub

\* sub in s
Contains(s, sub) == \E i \in 1..(Len(s) + 1) : MatchesAt(s, sub, i)

\* s.endswith(suffix)
EndsWith(s, suffix) ==
    Len(suffix) <= Len(s) /\ MatchesAt(s, suffix, Len(s) - Len(suffix) + 1)

Raised == [raised |-> TRUE, manifests |-> <<>>]
Returned(manifests) == [raised |-> FALSE, manifests |-> manifests]

RetrievedManifest(s3_object, period, format_version) ==
    [Key |-> s3_object.Key, last_modified |-> s3_object.LastModified,
     period |-> period, format_version |-> format_version]

\* f"{report_name}-Manifest.json"
ManifestFilePattern(report_name) ==
    report_name \o <<"-", "M", "a", "n", "i", "f", "e", "s", "t",
                     ".", "j", "s", "o", "n">>

\* CUR1ReportHandler._try_parse_billing_period_from_folder_name: start_date is
\* assigned before the second strptime runs, and the except clause leaves it
\* assigned
try_parse_billing_period_from_folder_name(folder_name) ==
    LET periods == Split(folder_name, "-")
    IN  IF Len(periods) = 2
        THEN IF strptime_Ymd(periods[1]) = NoDate
             THEN [start |-> NoDate, end |-> NoDate]
             ELSE [start |-> strptime_Ymd(periods[1]),
                   end   |-> strptime_Ymd(periods[2])]
        ELSE [start |-> NoDate, end |-> NoDate]

\* the period folder CUR1 retrieve_manifests settles on for a key of two or
\* more parts: the parent, else the grandparent, else <<>> with no start date
Cur1PeriodFolder(key_parts) ==
    LET n      == Len(key_parts)
        parent == key_parts[n - 1]
    IN  IF try_parse_billing_period_from_folder_name(parent).start # NoDate
        THEN [start_date |-> TRUE, parent_folder_name |-> parent]
        ELSE IF n >= 3
                /\ try_parse_billing_period_from_folder_name(key_parts[n - 2]).start
                     # NoDate
        THEN [start_date |-> TRUE, parent_folder_name |-> key_parts[n - 2]]
        ELSE [start_date |-> FALSE, parent_folder_name |-> parent]

\* the loop of CUR1ReportHandler.retrieve_manifests; key_parts[-2] raises
\* IndexError for a key without "/", and neither the read nor json.loads is
\* inside a try
RECURSIVE Cur1RetrieveLoop(_, _, _)
Cur1RetrieveLoop(s3_objects, report_name, manifests) ==
    IF s3_objects = <<>> THEN Returned(manifests)
    ELSE
      LET s3_object   == Head(s3_objects)
          key_parts   == Split(s3_object.Key, "/")
          object_name == key_parts[Len(key_parts)]
      IN  IF object_name # ManifestFilePattern(report_name)
          THEN Cur1RetrieveLoop(Tail(s3_objects), report_name, manifests)
          ELSE IF Len(key_parts) < 2 THEN Raised
          ELSE LET folder == Cur1PeriodFolder(key_parts)
               IN  IF ~folder.start_date
                   THEN Cur1RetrieveLoop(Tail(s3_objects), report_name, manifests)
                   ELSE IF s3_object.body # "ok" THEN Raised
                   ELSE Cur1RetrieveLoop(Tail(s3_objects), report_name,
                            Append(manifests,
                                   RetrievedManifest(s3_object,
                                       folder.parent_folder_name, "1.0")))

cur1_retrieve_manifests(s3_objects, report_name) ==
    Cur1RetrieveLoop(s3_objects, report_name, <<>>)

BillingPeriodEq ==
    <<"B", "I", "L", "L", "I", "N", "G", "_", "P", "E", "R", "I", "O", "D", "=">>
MetadataBillingPeriodEq ==
    <<"m", "e", "t", "a", "d", "a", "t", "a", "/">> \o BillingPeriodEq

\* re.search(r"BILLING_PERIOD=([^/]+)", key).group(1), <<>> when it finds none
RECURSIVE UpToSlash(_)
UpToSlash(s) ==
    IF s = <<>> \/ Head(s) = "/" THEN <<>> ELSE <<Head(s)>> \o UpToSlash(Tail(s))

SearchBillingPeriod(key) ==
    LET hits == { i \in 1..Len(key) :
                    /\ MatchesAt(key, BillingPeriodEq, i)
                    /\ i + Len(BillingPeriodEq) <= Len(key)
                    /\ key[i + Len(BillingPeriodEq)] # "/" }
    IN  IF hits = {} THEN <<>>
        ELSE LET i == CHOOSE i \in hits : \A j \in hits : i <= j
             IN  UpToSlash(SubSeq(key, i + Len(BillingPeriodEq), Len(key)))

\* the loop of CUR2ReportHandler.retrieve_manifests; the work on one manifest,
\* the read and json.loads included, is inside try/except Exception: continue
RECURSIVE Cur2RetrieveLoop(_, _, _)
Cur2RetrieveLoop(s3_objects, report_name, manifests) ==
    IF s3_objects = <<>> THEN Returned(manifests)
    ELSE
      LET s3_object == Head(s3_objects)
          key       == s3_object.Key
          period    == SearchBillingPeriod(key)
          keep ==
              /\ Contains(key, MetadataBillingPeriodEq)
              /\ EndsWith(key, ManifestFilePattern(report_name))
              /\ period # <<>>
              /\ s3_object.body = "ok"
      IN  Cur2RetrieveLoop(Tail(s3_objects), report_name,
              IF keep
              THEN Append(manifests, RetrievedManifest(s3_object, period, "2.0"))
              ELSE manifests)

cur2_retrieve_manifests(s3_objects, report_name) ==
    Cur2RetrieveLoop(s3_objects, report_name, <<>>)

(***************************************************************************)
(* SpecResolve: retrieve_manifests of either handler on every listing of   *)
(* at most MaxManifests objects of the pool, no key listed twice.          *)
(***************************************************************************)
\* "/".join(parts)
RECURSIVE Path(_)
Path(parts) ==
    IF Len(parts) = 1 THEN parts[1]
    ELSE parts[1] \o <<"/">> \o Path(Tail(parts))

ReportName == <<"r">>
Ymd(y, m, d) == Y4(y) \o D2(m) \o D2(d)
NotADate == <<"n", "o", "t", "a", "d", "a", "t", "e">>
FolderOf(a, b) == a \o <<"-">> \o b
BillingPeriodFolder(y, m) == BillingPeriodEq \o Y4(y) \o <<"-">> \o D2(m)
MetadataFolder == <<"m", "e", "t", "a", "d", "a", "t", "a">>
DataFolder == <<"d", "a", "t", "a">>
ManifestName == ManifestFilePattern(ReportName)
ChunkName == <<"r", "-", "1", ".", "c", "s", "v">>

S3Object(key, last_modified, body) ==
    [Key |-> key, LastModified |-> last_modified, body |-> body]

S3ObjectPool ==
    { S3Object(Path(<<<<"p">>, FolderOf(Ymd(2024, 1, 1), Ymd(2024, 2, 1)),
                      ManifestName>>), 1, "ok"),
      S3Object(Path(<<<<"p">>, FolderOf(Ymd(2024, 2, 1), Ymd(2024, 3, 1)),
                      ManifestName>>), 2, "bad_json"),
      S3Object(Path(<<<<"p">>, FolderOf(Ymd(2024, 3, 1), Ymd(2024, 4, 1)),
                      ManifestName>>), 3, "unreadable"),
      S3Object(Path(<<<<"p">>, FolderOf(Ymd(2024, 1, 1), NotADate),
                      ManifestName>>), 4, "ok"),
      S3Object(Path(<<<<"p">>, FolderOf(NotADate, Ymd(2024, 1, 1)),
                      ManifestName>>), 5, "ok"),
      S3Object(Path(<<<<"p">>, FolderOf(Ymd(2024, 1, 1), Ymd(2024, 2, 1)),
                      <<"x">>, ManifestName>>), 6, "ok"),
      S3Object(Path(<<<<"p">>, DataFolder, ManifestName>>), 7, "ok"),
      S3Object(Path(<<<<"p">>, FolderOf(Ymd(2024, 1, 1), Ymd(2024, 2, 1)),
                      ChunkName>>), 8, "ok"),
      S3Object(ManifestName, 9, "ok"),
      S3Object(Path(<<<<"p">>, MetadataFolder, BillingPeriodFolder(2024, 1),
                      ManifestName>>), 10, "ok"),
      S3Object(Path(<<<<"p">>, MetadataFolder, BillingPeriodFolder(2024, 2),
                      ManifestName>>), 11, "bad_json"),
      S3Object(Path(<<<<"p">>, MetadataFolder, BillingPeriodFolder(2024, 3),
                      ManifestName>>), 12, "unreadable") }

Keys(objects) == [i \in 1..Len(objects) |-> objects[i].Key]

InitResolve ==
    /\ CompIdle
    /\ fin \in [s3_objects :
                  { l \in SeqsUpTo(S3ObjectPool, MaxManifests) :
                      \A i, j \in 1..Len(l) : l[i].Key = l[j].Key => i = j }]
    /\ fout = <<>>
    /\ fpc = "input"

RetrieveCur1 ==
    /\ fpc = "input"
    /\ fout' = [handler |-> "cur1",
                result  |-> cur1_retrieve_manifests(fin.s3_objects, ReportName)]
    /\ fpc' = "done"
    /\ UNCHANGED <<fin, listing, config, stateFile, comp, pc, run, runNo>>

RetrieveCur2 ==
    /\ fpc = "input"
    /\ fout' = [handler |-> "cur2",
                result  |-> cur2_retrieve_manifests(fin.s3_objects, ReportName)]
    /\ fpc' = "done"
    /\ UNCHANGED <<fin, listing, config, stateFile, comp, pc, run, runNo>>

SpecResolve == InitResolve /\ [][RetrieveCur1 \/ RetrieveCur2]_vars

\* every key of the listing lies in a folder
AllKeysInFolders == \A i \in 1..Len(fin.s3_objects) :
                       Len(Split(fin.s3_objects[i].Key, "/")) >= 2

\* two dash-separated components that both parse as YYYYMMDD dates
IsPeriodFolderName(folder_name) ==
    LET periods == Split(folder_name, "-")
    IN  /\ Len(periods) = 2
        /\ strptime_Ymd(periods[1]) # NoDate
        /\ strptime_Ymd(periods[2]) # NoDate

C9_Recognized(s3_object) ==
    LET key_parts == Split(s3_object.Key, "/")
        n         == Len(key_parts)
    IN  /\ key_parts[n] = ManifestName
        /\ n >= 2
        /\ \/ IsPeriodFolderName(key_parts[n - 1])
           \/ n >= 3 /\ IsPeriodFolderName(key_parts[n - 2])

\* C9: legacy resolution (every body readable, every key in a folder) returns
\* without error exactly the objects named "<reportName>-Manifest.json" whose
\* parent folder, or failing that grandparent folder, is two dash-separated
\* components that both parse as YYYYMMDD dates; a folder of which only one
\* component is a date is rejected.
C9_LegacyRecognition ==
    ( /\ fpc = "done"
      /\ fout.handler = "cur1"
      /\ AllKeysInFolders
      /\ \A i \in 1..Len(fin.s3_objects) : fin.s3_objects[i].body = "ok" )
    => /\ ~fout.result.raised
       /\ Keys(fout.result.manifests)
            = Keys(SelectSeq(fin.s3_objects, C9_Recognized))

\* the objects each handler goes on to read
Cur1Gate(s3_object) ==
    LET key_parts == Split(s3_object.Key, "/")
    IN  /\ key_parts[Len(key_parts)] = ManifestName
        /\ Len(key_parts) >= 2
        /\ Cur1PeriodFolder(key_parts).start_date

Cur2Gate(s3_object) ==
    /\ Contains(s3_object.Key, MetadataBillingPeriodEq)
    /\ EndsWith(s3_object.Key, ManifestName)
    /\ SearchBillingPeriod(s3_object.Key) # <<>>

C10_Gate(s3_object) ==
    IF fout.handler = "cur1" THEN Cur1Gate(s3_object) ELSE Cur2Gate(s3_object)

C10_GateReadable(s3_object) == C10_Gate(s3_object) /\ s3_object.body = "ok"

\* C10: for both variants, when the body of a recognized manifest cannot be
\* read or parsed, retrieve_manifests does not raise and returns every other
\* recognized manifest of the listing.
C10_UnreadableManifestSkipped ==
    ( /\ fpc = "done"
      /\ AllKeysInFolders
      /\ \E i \in 1..Len(fin.s3_objects) :
            /\ C10_Gate(fin.s3_objects[i])
            /\ fin.s3_objects[i].body # "ok" )
    => /\ ~fout.result.raised
       /\ Keys(fout.result.manifests)
            = Keys(SelectSeq(fin.s3_objects, C10_GateReadable))

\* the legacy handler returned a manifest it read under "20240101-notadate"
C9_PartialFolderAccepted ==
    /\ fpc = "done"
    /\ fout.handler = "cur1"
    /\ ~fout.result.raised
    /\ \E i \in 1..Len(fout.result.manifests) :
          fout.result.manifests[i].period = FolderOf(Ymd(2024, 1, 1), NotADate)

\* the legacy handler raised on a listing that holds a readable manifest next
\* to one whose body does not parse
C10_LegacyPassAborted ==
    /\ fpc = "done"
    /\ fout.handler = "cur1"
    /\ fout.result.raised
    /\ AllKeysInFolders
    /\ \E i \in 1..Len(fin.s3_objects) : C10_GateReadable(fin.s3_objects[i])
    /\ \E i \in 1..Len(fin.s3_objects) :
          Cur1Gate(fin.s3_objects[i]) /\ fin.s3_objects[i].body = "bad_json"

(***************************************************************************)
(* Component (component.py) over AWSReportManager and DuckDBProcessor.     *)
(* Time is counted in days.  A manifest of the bucket is                   *)
(*   [report_folder, assemblyId, last_modified, billingPeriodStart, zip];  *)
(* its one data chunk and its columns follow from the assemblyId.          *)
(*   comp = the fields of the Component object                             *)
(*   run  = what the run did: the state file as read, the manifests found, *)
(*          the tables raw_reports and the result table as lists of        *)
(*          [assemblyId, source], the steps that failed, what was exported *)
(*          and how the run ended                                          *)
(***************************************************************************)
ReportManifest(report_folder, assemblyId, last_modified, billingPeriodStart, zip) ==
    [report_folder |-> report_folder, assemblyId |-> assemblyId,
     last_modified |-> last_modified, billingPeriodStart |-> billingPeriodStart,
     zip |-> zip]

ManifestPool ==
    { ReportManifest("f1", "A", 1, 0, FALSE),
      ReportManifest("f2", "A", 2, 0, FALSE),
      ReportManifest("f3", "B", 2, 1, FALSE),
      ReportManifest("f4", "Z", 3, 1, TRUE) }

\* manifest["columns"]
ColumnsOf(assemblyId) ==
    IF assemblyId = "A" THEN << Col(<<"a">>, <<"b">>) >>
    ELSE << Col(<<"a">>, <<"b">>), Col(<<"a">>, <<"c">>) >>

\* the header line of the manifest's data chunk: category/name
CsvHeaderOf(assemblyId) ==
    [i \in 1..Len(ColumnsOf(assemblyId)) |->
        ColumnsOf(assemblyId)[i].category \o <<"/">> \o ColumnsOf(assemblyId)[i].name]

\* datetime.now()
Now == 9

\* datetime.isoformat() and datetime.fromisoformat() of a day count
isoformat(t) == IntToStr(t)
fromisoformat(s) == ToInt(s)

Source(kind, name) == [kind |-> kind, name |-> name]
Loaded(assemblyId, source) == [assemblyId |-> assemblyId, source |-> source]

\* since_timestamp and until_timestamp are None until _prepare_runtime_state
\* sets them; the 0 is never read
NoComp ==
    [last_state |-> NoState, last_report_id |-> "None", last_header |-> <<>>,
     since_timestamp |-> 0, until_timestamp |-> 0, latest_report_id |-> "None"]

NewRun(state) ==
    [start_state |-> state, manifests |-> <<>>, idx |-> 0,
     raw_reports |-> <<>>, result_table |-> <<>>, failed |-> {},
     exported |-> [done |-> FALSE, rows |-> <<>>],
     outcome |-> "running", state_written |-> FALSE]

Init ==
    /\ FunIdle
    /\ listing \in { l \in SeqsUpTo(ManifestPool, MaxManifests) :
                       \A i, j \in 1..Len(l) : l[i] = l[j] => i = j }
    /\ config \in [since_last : BOOLEAN, start_date : {0, 1}]
    /\ stateFile = NoState
    /\ comp = NoComp
    /\ run = NewRun(NoState)
    /\ pc = "idle"
    /\ runNo = 0

funUnchanged == UNCHANGED <<fin, fout, fpc>>

\* an exception leaves run(): logged, re-raised, the state file not written
Raise(step) ==
    /\ run' = [run EXCEPT !.failed = @ \cup {step}, !.outcome = "error"]
    /\ pc' = "done"
    /\ UNCHANGED <<stateFile, comp>>

\* Component.__init__: read the state file
Construct ==
    /\ pc \in {"idle", "done"}
    /\ runNo < MaxRuns
    /\ runNo' = runNo + 1
    /\ comp' = [last_state       |-> stateFile,
                last_report_id   |-> stateFile.last_report_id,
                last_header      |-> stateFile.report_header,
                since_timestamp  |-> 0,
                until_timestamp  |-> 0,
                latest_report_id |-> stateFile.last_report_id]
    /\ run' = NewRun(stateFile)
    /\ pc' = "prepare"
    /\ UNCHANGED <<listing, config, stateFile>>
    /\ funUnchanged

PrepareRuntimeState ==
    /\ pc = "prepare"
    /\ LET last_file_timestamp == comp.last_state.last_file_timestamp
       IN  comp' = [comp EXCEPT
                      !.until_timestamp = Now,
                      !.since_timestamp =
                          IF last_file_timestamp # <<>> /\ config.since_last
                          THEN fromisoformat(last_file_timestamp)
                          ELSE config.start_date]
    /\ pc' = "discover"
    /\ UNCHANGED <<listing, config, stateFile, run, runNo>>
    /\ funUnchanged

\* AWSReportManager.get_s3_objects: LastModified <= since_timestamp is left out
get_s3_objects(objects, since_timestamp) ==
    SelectSeq(objects, LAMBDA obj : ~(obj.last_modified <= since_timestamp))

\* AWSReportManager.filter_manifests_by_date_range
filter_manifests_by_date_range(manifests, since_timestamp, until_timestamp) ==
    SelectSeq(manifests,
              LAMBDA manifest : /\ until_timestamp >= manifest.billingPeriodStart
                                /\ manifest.billingPeriodStart >= since_timestamp)

\* a no-op run that resets the state instead of writing back what it read
no_reports_state_reset(last_state) == NoState

\* write_state_file(self.last_state) of the run that found no report
NoReportsState(last_state) == last_state

\* _discover_available_reports; listing the bucket or reading a manifest body
\* may raise; without manifests the state file is rewritten as it was read and
\* the process exits with code 0
DiscoverAvailableReports ==
    /\ pc = "discover"
    /\ \E s3_ok \in BOOLEAN :
         IF ~s3_ok THEN Raise("discover")
         ELSE
           LET all_files == get_s3_objects(listing, comp.since_timestamp)
               report_manifests ==
                   IF ~config.since_last
                   THEN filter_manifests_by_date_range(
                            all_files, comp.since_timestamp, comp.until_timestamp)
                   ELSE all_files
           IN  IF report_manifests = <<>>
               THEN /\ stateFile' = NoReportsState(comp.last_state)
                    /\ run' = [run EXCEPT !.outcome = "exit0"]
                    /\ pc' = "done"
                    /\ UNCHANGED comp
               ELSE /\ run' = [run EXCEPT !.manifests = report_manifests]
                    /\ pc' = "process"
                    /\ UNCHANGED <<stateFile, comp>>
    /\ UNCHANGED <<listing, config, runNo>>
    /\ funUnchanged

\* AWSReportManager.manifest_contains_zip_files
manifest_contains_zip_files(manifest) == manifest.zip
IsZip(manifest) == manifest_contains_zip_files(manifest)
IsCsv(manifest) == ~manifest_contains_zip_files(manifest)

\* _process_and_export_reports: connect, then choose the strategy
ProcessAndExportReports ==
    /\ pc = "process"
    /\ \E setup_ok \in BOOLEAN :
         IF ~setup_ok THEN Raise("connect")
         ELSE /\ pc' = IF SelectSeq(run.manifests, IsCsv) # <<>>
                          /\ SelectSeq(run.manifests, IsZip) = <<>>
                       THEN "bulk" ELSE "individual"
              /\ UNCHANGED <<stateFile, comp, run>>
    /\ UNCHANGED <<listing, config, runNo>>
    /\ funUnchanged

\* AWSReportManager.get_s3_patterns_from_manifests: one folder pattern for
\* each manifest without ZIP files
get_s3_patterns_from_manifests(manifests) ==
    LET csv == SelectSeq(manifests, IsCsv)
    IN  [i \in 1..Len(csv) |->
            Loaded(csv[i].assemblyId, Source("pattern", csv[i].report_folder))]

\* _update_runtime_state_from_manifests
RECURSIVE update_runtime_state_from_manifests(_, _, _, _)
update_runtime_state_from_manifests(manifests, since_last, since_timestamp, latest_report_id) ==
    IF manifests = <<>>
    THEN [since_timestamp |-> since_timestamp, latest_report_id |-> latest_report_id]
    ELSE LET manifest == Head(manifests)
         IN  IF since_last /\ manifest.assemblyId = latest_report_id
             THEN update_runtime_state_from_manifests(
                      Tail(manifests), since_last, since_timestamp, latest_report_id)
             ELSE IF since_timestamp < manifest.last_modified
             THEN update_runtime_state_from_manifests(
                      Tail(manifests), since_last, manifest.last_modified,
                      manifest.assemblyId)
             ELSE update_runtime_state_from_manifests(
                      Tail(manifests), since_last, since_timestamp, latest_report_id)

\* the columns of raw_reports: read_csv_auto with union_by_name over the
\* loaded files, source_file left out
RECURSIVE UnionByName(_, _)
UnionByName(manifests, columns) ==
    IF manifests = <<>> THEN columns
    ELSE UnionByName(Tail(manifests),
             columns \o SelectSeq(CsvHeaderOf(Head(manifests).assemblyId),
                                  LAMBDA c : c \notin Range(columns)))

\* _try_bulk_csv_processing.  load_csv_files_bulk and create_unified_view
\* answer False for an exception, get_current_columns_from_table answers [],
\* export_data_to_csv raises.
TryBulkCsvProcessing ==
    /\ pc = "bulk"
    /\ \E load_ok, columns_ok, view_ok, export_ok \in BOOLEAN :
         LET csv_manifests == SelectSeq(run.manifests, IsCsv)
             s3_patterns   == get_s3_patterns_from_manifests(csv_manifests)
             tracking == update_runtime_state_from_manifests(
                             csv_manifests, config.since_last,
                             comp.since_timestamp, comp.latest_report_id)
             current_columns == IF columns_ok THEN UnionByName(csv_manifests, <<>>)
                                ELSE <<>>
             final_columns == normalize_and_merge_columns(
                                  current_columns, comp.last_header)
             failed == (IF columns_ok THEN {} ELSE {"schema"})
                       \cup (IF view_ok THEN {} ELSE {"view"})
             tracked == [comp EXCEPT
                           !.since_timestamp = tracking.since_timestamp,
                           !.latest_report_id = tracking.latest_report_id,
                           !.last_header = final_columns]
         IN  IF ~load_ok
             THEN /\ run' = [run EXCEPT !.failed = @ \cup {"load"}]
                  /\ pc' = "individual"
                  /\ UNCHANGED <<stateFile, comp>>
             ELSE IF ~view_ok
             THEN /\ comp' = tracked
                  /\ run' = [run EXCEPT !.raw_reports = s3_patterns,
                                        !.failed = @ \cup failed]
                  /\ pc' = "individual"
                  /\ UNCHANGED stateFile
             ELSE IF ~export_ok
             THEN /\ comp' = tracked
                  /\ run' = [run EXCEPT !.raw_reports = s3_patterns,
                                        !.failed = @ \cup failed \cup {"export"},
                                        !.outcome = "error"]
                  /\ pc' = "done"
                  /\ UNCHANGED stateFile
             ELSE /\ comp' = tracked
                  /\ run' = [run EXCEPT !.raw_reports = s3_patterns,
                                        !.failed = @ \cup failed,
                                        !.exported = [done |-> TRUE,
                                                      rows |-> s3_patterns]]
                  /\ pc' = "save"
                  /\ UNCHANGED stateFile
    /\ UNCHANGED <<listing, config, runNo>>
    /\ funUnchanged

\* _process_reports_individually up to its loop: the header of all manifests,
\* then create_result_table, which may raise
StartIndividualProcessing ==
    /\ pc = "individual"
    /\ \E create_ok \in BOOLEAN :
         IF ~create_ok
         THEN /\ run' = [run EXCEPT !.failed = @ \cup {"create"}, !.outcome = "error"]
              /\ pc' = "done"
         ELSE /\ run' = [run EXCEPT !.idx = 1, !.result_table = <<>>]
              /\ pc' = "chunks"
    /\ comp' = [comp EXCEPT !.last_header =
                   get_max_header_normalized(
                       [i \in 1..Len(run.manifests) |->
                           ColumnsOf(run.manifests[i].assemblyId)],
                       comp.last_header)]
    /\ UNCHANGED <<listing, config, stateFile, runNo>>
    /\ funUnchanged

\* one pass of the loop of _process_reports_individually: skip the manifest
\* whose assemblyId is latest_report_id (since_last), else update the tracking
\* and append its chunk; loading or inserting the chunk may raise
ProcessManifest ==
    /\ pc = "chunks"
    /\ run.idx <= Len(run.manifests)
    /\ LET manifest == run.manifests[run.idx]
       IN  IF config.since_last /\ manifest.assemblyId = comp.latest_report_id
           THEN /\ run' = [run EXCEPT !.idx = @ + 1]
                /\ pc' = pc
                /\ UNCHANGED comp
           ELSE /\ comp' = IF comp.since_timestamp < manifest.last_modified
                           THEN [comp EXCEPT
                                   !.since_timestamp = manifest.last_modified,
                                   !.latest_report_id = manifest.assemblyId]
                           ELSE comp
                /\ \E chunk_ok \in BOOLEAN :
                     IF chunk_ok
                     THEN /\ run' = [run EXCEPT
                                !.idx = @ + 1,
                                !.result_table =
                                    Append(@, Loaded(manifest.assemblyId,
                                               Source("chunk", manifest.assemblyId)))]
                          /\ pc' = pc
                     ELSE /\ run' = [run EXCEPT !.failed = @ \cup {"load"},
                                                !.outcome = "error"]
                          /\ pc' = "done"
    /\ UNCHANGED <<listing, config, stateFile, runNo>>
    /\ funUnchanged

\* the export that ends _process_reports_individually
ExportResultTable ==
    /\ pc = "chunks"
    /\ run.idx > Len(run.manifests)
    /\ \E export_ok \in BOOLEAN :
         IF ~export_ok THEN Raise("export")
         ELSE /\ run' = [run EXCEPT !.exported = [done |-> TRUE,
                                                  rows |-> run.result_table]]
              /\ pc' = "save"
              /\ UNCHANGED <<stateFile, comp>>
    /\ UNCHANGED <<listing, config, runNo>>
    /\ funUnchanged

\* _save_final_state: the table manifest, then the state file
SaveFinalState ==
    /\ pc = "save"
    /\ \E manifest_ok \in BOOLEAN :
         IF ~manifest_ok THEN Raise("manifest")
         ELSE /\ stateFile' =
                    [last_file_timestamp |-> isoformat(comp.since_timestamp),
                     last_report_id      |-> comp.latest_report_id,
                     report_header       |-> comp.last_header]
              /\ run' = [run EXCEPT !.outcome = "success", !.state_written = TRUE]
              /\ pc' = "done"
              /\ UNCHANGED comp
    /\ UNCHANGED <<listing, config, runNo>>
    /\ funUnchanged

Next ==
    \/ Construct
    \/ PrepareRuntimeState
    \/ DiscoverAvailableReports
    \/ ProcessAndExportReports
    \/ TryBulkCsvProcessing
    \/ StartIndividualProcessing
    \/ ProcessManifest
    \/ ExportResultTable
    \/ SaveFinalState

Spec == Init /\ [][Next]_vars

NoSourceTwice(table) ==
    \A i, j \in 1..Len(table) :
        (i # j /\ table[i].assemblyId = table[j].assemblyId)
            => table[i].source # table[j].source

\* C2: within one run the data of one assemblyId is loaded at most once: no
\* table of the run holds the same source of the same assemblyId twice.
C2_AssemblyLoadedOnce ==
    NoSourceTwice(run.raw_reports) /\ NoSourceTwice(run.result_table)

\* two manifest records of one assemblyId, its chunk appended twice
C2_ChunkLoadedTwice ==
    /\ Len(run.result_table) = 2
    /\ run.result_table[1] = run.result_table[2]
    /\ run.manifests[1].assemblyId = run.manifests[2].assemblyId
    /\ run.manifests[1] # run.manifests[2]

\* C3: in incremental mode no data of the manifest whose assemblyId is the
\* last_report_id read from the state file is in the exported dataset.
C3_LastReportSkipped ==
    config.since_last =>
        \A i \in 1..Len(run.exported.rows) :
            run.exported.rows[i].assemblyId # run.start_state.last_report_id

\* the bulk path exported the manifest of the state's last_report_id
C3_LastReportBulkLoaded ==
    /\ config.since_last
    /\ run.start_state.last_report_id = "A"
    /\ run.exported.done
    /\ \E i \in 1..Len(run.exported.rows) :
          /\ run.exported.rows[i].assemblyId = "A"
          /\ run.exported.rows[i].source.kind = "pattern"

\* the premise of the idempotent rerun: incremental mode, a state written by
\* the previous run, every manifest of the unchanged listing carrying the
\* state's last_report_id
RerunOfSameReport ==
    /\ config.since_last
    /\ runNo >= 2
    /\ run.start_state.last_file_timestamp # <<>>
    /\ listing # <<>>
    /\ \A i \in 1..Len(listing) :
          listing[i].assemblyId = run.start_state.last_report_id

C14_NoReportsIsCleanNoOp ==
    /\ (pc = "done" /\ run.outcome = "exit0") =>
          /\ stateFile = run.start_state
          /\ run.manifests = <<>>
          /\ run.raw_reports = <<>> /\ run.result_table = <<>>
          /\ ~run.exported.done
          /\ run.failed = {}
    /\ (runNo >= 1 /\ pc \notin {"prepare", "discover"} /\ run.outcome # "exit0"
            /\ "discover" \notin run.failed) => run.manifests # <<>>

\* a second run found nothing new and left the state of the first run as it was
C14_NoOpKeptEarlierState ==
    /\ pc = "done" /\ run.outcome = "exit0"
    /\ runNo = 2
    /\ run.start_state # NoState
    /\ listing # <<>>
    /\ stateFile = run.start_state

\* the manifest was ingested by a previous run: incremental mode, and its
\* assemblyId is the last_report_id the run read from the state file
IngestedBefore(manifest) ==
    config.since_last /\ manifest.assemblyId = run.start_state.last_report_id

Exported(manifest) ==
    \E i \in 1..Len(run.exported.rows) :
        run.exported.rows[i].assemblyId = manifest.assemblyId

CleanRunExportsSelected ==
    (pc = "done" /\ run.outcome = "success" /\ run.failed = {}) =>
        \A i \in 1..Len(run.manifests) :
            IngestedBefore(run.manifests[i]) \/ Exported(run.manifests[i])

(***************************************************************************)
(* CUR1ReportHandler._extract_all_zip_files_parallel                       *)
(* A chunk key is [name, ext, content]: the key reads name "." ext, ext a   *)
(* sequence of characters; content says what the object in the bucket      *)
(* holds: an archive with one or two .csv members or with none, bytes that *)
(* are no archive ("corrupt"), or nothing readable ("missing").            *)
(*   fin  = [zip_manifests]                                                *)
(*   fout = [zip_tasks, futures, extracted_csv_paths]; a future is         *)
(*          [state, ok, path] with state pending / running / finished /    *)
(*          collected                                                      *)
(***************************************************************************)
MaxWorkers == 4

ChunkKey(name, ext, content) == [name |-> name, ext |-> ext, content |-> content]

ExtZip == <<"z", "i", "p">>
ExtCsv == <<"c", "s", "v">>
ExtGz == <<"g", "z">>
ExtCsvGz == ExtCsv \o <<".">> \o ExtGz
ExtParquet == <<"p", "a", "r", "q", "u", "e", "t">>

\* key.endswith(suffix), decided on the part of the key from its first dot on
KeyEndsWith(key, suffix) == EndsWith(<<".">> \o key.ext, suffix)

\* _download_and_extract_zip: the path of the first .csv member inside a fresh
\* mkdtemp directory (one per call, named here by the task), or an exception
download_and_extract_zip(task, zip_key) ==
    IF zip_key.content \in {"missing", "corrupt", "no_csv"}
    THEN [ok |-> FALSE, path |-> <<>>]
    ELSE [ok |-> TRUE, path |-> <<task, zip_key.name>>]

\* the loop that builds zip_tasks: every chunk key that ends with ".zip"
RECURSIVE ZipTasks(_)
ZipTasks(zip_manifests) ==
    IF zip_manifests = <<>> THEN <<>>
    ELSE SelectSeq(Head(zip_manifests).reportKeys,
                   LAMBDA chunk_key : KeyEndsWith(chunk_key, <<".">> \o ExtZip))
         \o ZipTasks(Tail(zip_manifests))

\* a body of the as_completed loop that lets a failed archive discard the
\* paths collected before it
collect_dropping_siblings(extracted_csv_paths, future) ==
    IF future.ok THEN Append(extracted_csv_paths, future.path) ELSE <<>>

\* the body of the as_completed loop: future.result() appended, or the
\* exception logged
CollectFuture(extracted_csv_paths, future) ==
    IF future.ok THEN Append(extracted_csv_paths, future.path)
    ELSE extracted_csv_paths

(***************************************************************************)
(* SpecExtract: the executor of _extract_all_zip_files_parallel on every   *)
(* list of at most MaxArchives distinct ZIP manifests, the workers         *)
(* finishing in any order.                                                 *)
(***************************************************************************)
ZipManifest(reportKeys) == [reportKeys |-> reportKeys]

ZipManifestPool ==
    { ZipManifest(<< ChunkKey("a", ExtZip, "one_csv") >>),
      ZipManifest(<< ChunkKey("b", ExtZip, "no_csv") >>),
      ZipManifest(<< ChunkKey("c", ExtZip, "corrupt") >>),
      ZipManifest(<< ChunkKey("d", ExtZip, "missing") >>),
      ZipManifest(<< ChunkKey("e", ExtZip, "two_csv"),
                     ChunkKey("f", ExtCsv, "one_csv") >>) }

PendingFuture == [state |-> "pending", ok |-> FALSE, path |-> <<>>]

InitExtract ==
    /\ CompIdle
    /\ fin \in [zip_manifests :
                  { l \in SeqsUpTo(ZipManifestPool, MaxArchives) :
                      \A i, j \in 1..Len(l) : l[i] = l[j] => i = j }]
    /\ fout = <<>>
    /\ fpc = "input"

compUnchanged == UNCHANGED <<listing, config, stateFile, comp, pc, run, runNo>>

\* executor.submit for every task
SubmitZipTasks ==
    /\ fpc = "input"
    /\ LET zip_tasks == ZipTasks(fin.zip_manifests)
       IN  fout' = [zip_tasks |-> zip_tasks,
                    futures |-> [i \in 1..Len(zip_tasks) |-> PendingFuture],
                    extracted_csv_paths |-> <<>>]
    /\ fpc' = "running"
    /\ UNCHANGED fin
    /\ compUnchanged

\* a free worker of the pool takes the oldest queued task
WorkerStart(i) ==
    /\ fpc = "running"
    /\ fout.futures[i].state = "pending"
    /\ \A j \in 1..(i - 1) : fout.futures[j].state # "pending"
    /\ Cardinality({j \in 1..Len(fout.futures) :
                       fout.futures[j].state = "running"}) < MaxWorkers
    /\ fout' = [fout EXCEPT !.futures[i].state = "running"]
    /\ UNCHANGED <<fin, fpc>>
    /\ compUnchanged

\* the worker's _download_and_extract_zip returns or raises
WorkerFinish(i) ==
    /\ fpc = "running"
    /\ fout.futures[i].state = "running"
    /\ LET result == download_and_extract_zip(i, fout.zip_tasks[i])
       IN  fout' = [fout EXCEPT !.futures[i] =
                       [state |-> "finished", ok |-> result.ok, path |-> result.path]]
    /\ UNCHANGED <<fin, fpc>>
    /\ compUnchanged

\* as_completed hands a finished future to the collecting loop
CollectCompleted(i) ==
    /\ fpc = "running"
    /\ fout.futures[i].state = "finished"
    /\ fout' = [fout EXCEPT
                  !.futures[i].state = "collected",
                  !.extracted_csv_paths = CollectFuture(@, fout.futures[i])]
    /\ UNCHANGED <<fin, fpc>>
    /\ compUnchanged

\* return extracted_csv_paths
ReturnExtracted ==
    /\ fpc = "running"
    /\ \A i \in 1..Len(fout.futures) : fout.futures[i].state = "collected"
    /\ fpc' = "done"
    /\ UNCHANGED <<fin, fout>>
    /\ compUnchanged

TaskIndex == 1..(MaxArchives + 1)

NextExtract ==
    \/ SubmitZipTasks
    \/ \E i \in TaskIndex : fpc = "running" /\ i <= Len(fout.futures) /\ WorkerStart(i)
    \/ \E i \in TaskIndex : fpc = "running" /\ i <= Len(fout.futures) /\ WorkerFinish(i)
    \/ \E i \in TaskIndex : fpc = "running" /\ i <= Len(fout.futures) /\ CollectCompleted(i)
    \/ ReturnExtracted

SpecExtract == InitExtract /\ [][NextExtract]_vars

\* the archive holds at least one .csv member and can be downloaded and opened
ArchiveExtracts(zip_key) == zip_key.content \in {"one_csv", "two_csv"}

\* C11: whatever the order in which the workers finish, the returned list
\* holds exactly one path for each archive whose extraction succeeded and
\* none for an archive that failed.
C11_OnePathPerExtractedArchive ==
    fpc = "done" =>
        /\ \A i \in 1..Len(fout.zip_tasks) :
              Cardinality({j \in 1..Len(fout.extracted_csv_paths) :
                              fout.extracted_csv_paths[j][1] = i})
                = IF ArchiveExtracts(fout.zip_tasks[i]) THEN 1 ELSE 0
        /\ \A j \in 1..Len(fout.extracted_csv_paths) :
              fout.extracted_csv_paths[j][1] \in 1..Len(fout.zip_tasks)

\* a later archive finished first, a failed archive is among the three, and
\* both paths of its siblings were returned
C11_SiblingsSurviveFailure ==
    /\ fpc = "done"
    /\ Len(fout.zip_tasks) = 3
    /\ Len(fout.extracted_csv_paths) = 2
    /\ fout.extracted_csv_paths[1][1] > fout.extracted_csv_paths[2][1]
    /\ \E i \in 1..3 : ~ArchiveExtracts(fout.zip_tasks[i])

(***************************************************************************)
(* get_csv_patterns of the two handlers                                    *)
(* A manifest here is [report_folder, period, reportKeys, dataFiles]; a    *)
(* pattern is [kind, name]: an object of the bucket ("s3"), a local file   *)
(* extracted from an archive ("local") or a wildcard over a period         *)
(* ("wildcard").  The result is [raised, patterns].                        *)
(***************************************************************************)
SourceManifest(report_folder, period, reportKeys, dataFiles) ==
    [report_folder |-> report_folder, period |-> period,
     reportKeys |-> reportKeys, dataFiles |-> dataFiles]

Pattern(kind, name) == [kind |-> kind, name |-> name]

\* CUR1ReportHandler._manifest_contains_zip_files
cur1_manifest_contains_zip_files(manifest) ==
    /\ manifest.reportKeys # <<>>
    /\ KeyEndsWith(manifest.reportKeys[1], ExtZip)

\* _extract_all_zip_files_parallel with the futures completing in the given
\* order of the tasks
RECURSIVE CollectInOrder(_, _, _)
CollectInOrder(zip_tasks, order, extracted_csv_paths) ==
    IF order = <<>> THEN extracted_csv_paths
    ELSE CollectInOrder(zip_tasks, Tail(order),
             CollectFuture(extracted_csv_paths,
                 download_and_extract_zip(Head(order), zip_tasks[Head(order)])))

extract_all_zip_files_parallel(zip_manifests, order) ==
    LET paths == CollectInOrder(ZipTasks(zip_manifests), order, <<>>)
    IN  [i \in 1..Len(paths) |-> Pattern("local", paths[i])]

\* the direct CSV patterns of one CUR 1.0 manifest
Cur1CsvPatterns(manifest) ==
    LET keys == SelectSeq(manifest.reportKeys,
                    LAMBDA key : \/ KeyEndsWith(key, <<".">> \o ExtCsv)
                                 \/ KeyEndsWith(key, <<".">> \o ExtCsvGz))
    IN  [i \in 1..Len(keys) |-> Pattern("s3", keys[i].name)]

RECURSIVE Cur1CsvLoop(_)
Cur1CsvLoop(csv_manifests) ==
    IF csv_manifests = <<>> THEN <<>>
    ELSE Cur1CsvPatterns(Head(csv_manifests)) \o Cur1CsvLoop(Tail(csv_manifests))

\* CUR1ReportHandler.get_csv_patterns: the list is returned whatever it holds
cur1_get_csv_patterns(manifests, order) ==
    LET csv_manifests == SelectSeq(manifests,
                             LAMBDA m : ~cur1_manifest_contains_zip_files(m))
        zip_manifests == SelectSeq(manifests, cur1_manifest_contains_zip_files)
    IN  [raised   |-> FALSE,
         patterns |-> Cur1CsvLoop(csv_manifests)
                      \o (IF zip_manifests # <<>>
                          THEN extract_all_zip_files_parallel(zip_manifests, order)
                          ELSE <<>>)]

\* CUR2ReportHandler._download_and_extract_gzip
download_and_extract_gzip(key) ==
    IF key.content \in {"missing", "corrupt"}
    THEN [ok |-> FALSE, path |-> <<>>]
    ELSE [ok |-> TRUE, path |-> <<key.name>>]

\* the GZIP loop of one CUR 2.0 manifest: a failed extraction is logged and
\* the file left out
RECURSIVE Cur2GzipLoop(_)
Cur2GzipLoop(gzip_files) ==
    IF gzip_files = <<>> THEN <<>>
    ELSE LET extracted == download_and_extract_gzip(Head(gzip_files))
         IN  (IF extracted.ok THEN << Pattern("local", extracted.path) >> ELSE <<>>)
             \o Cur2GzipLoop(Tail(gzip_files))

\* the patterns one CUR 2.0 manifest adds
Cur2ManifestPatterns(manifest) ==
    LET files_to_process == IF manifest.dataFiles # <<>> THEN manifest.dataFiles
                            ELSE manifest.reportKeys
        gzip_files == SelectSeq(files_to_process,
                          LAMBDA f : KeyEndsWith(f, <<".">> \o ExtGz))
        csv_files  == SelectSeq(files_to_process,
                          LAMBDA f : KeyEndsWith(f, <<".">> \o ExtCsv))
    IN  IF files_to_process # <<>>
        THEN Cur2GzipLoop(gzip_files)
             \o [i \in 1..Len(csv_files) |-> Pattern("s3", csv_files[i].name)]
        ELSE << Pattern("wildcard", manifest.period) >>

RECURSIVE Cur2PatternLoop(_)
Cur2PatternLoop(manifests) ==
    IF manifests = <<>> THEN <<>>
    ELSE Cur2ManifestPatterns(Head(manifests)) \o Cur2PatternLoop(Tail(manifests))

\* CUR2ReportHandler.get_csv_patterns: ValueError when no pattern was produced
cur2_get_csv_patterns(manifests) ==
    LET patterns == Cur2PatternLoop(manifests)
    IN  IF patterns = <<>> THEN [raised |-> TRUE, patterns |-> <<>>]
        ELSE [raised |-> FALSE, patterns |-> patterns]

(***************************************************************************)
(* SpecPatterns: get_csv_patterns of either handler on every list of at    *)
(* most MaxManifests manifests of its pool; the archives of the CUR 1.0    *)
(* manifests complete in any order.                                        *)
(***************************************************************************)
Cur1SourcePool ==
    { SourceManifest("f1", "p1", << ChunkKey("a", ExtCsv, "data") >>, <<>>),
      SourceManifest("f2", "p2", << ChunkKey("b", ExtCsvGz, "data") >>, <<>>),
      SourceManifest("f3", "p3", << ChunkKey("c", ExtZip, "one_csv") >>, <<>>),
      SourceManifest("f4", "p4", << ChunkKey("d", ExtZip, "corrupt") >>, <<>>),
      SourceManifest("f5", "p5", << ChunkKey("e", ExtZip, "no_csv") >>, <<>>),
      SourceManifest("f6", "p6", << ChunkKey("g", ExtParquet, "data") >>, <<>>),
      SourceManifest("f7", "p7", <<>>, <<>>),
      SourceManifest("f8", "p8", << ChunkKey("h", ExtZip, "one_csv"),
                                    ChunkKey("i", ExtZip, "one_csv") >>, <<>>),
      SourceManifest("f9", "p9", << ChunkKey("j", ExtCsv, "data"),
                                    ChunkKey("k", ExtZip, "one_csv") >>, <<>>),
      SourceManifest("f10", "p10", << ChunkKey("l", ExtZip, "one_csv"),
                                      ChunkKey("m", ExtCsvGz, "data") >>, <<>>) }

Cur2SourcePool ==
    { SourceManifest("f1", "p1", <<>>, << ChunkKey("a", ExtCsvGz, "data") >>),
      SourceManifest("f2", "p2", <<>>, << ChunkKey("b", ExtCsvGz, "corrupt") >>),
      SourceManifest("f3", "p3", << ChunkKey("c", ExtCsv, "data") >>, <<>>),
      SourceManifest("f4", "p4", << ChunkKey("d", ExtGz, "missing") >>, <<>>),
      SourceManifest("f5", "p5", <<>>, << ChunkKey("e", ExtParquet, "data") >>),
      SourceManifest("f6", "p6", <<>>, <<>>) }

InitPatterns ==
    /\ CompIdle
    /\ fin \in [handler : {"cur1"},
                manifests : SeqsUpTo(Cur1SourcePool, MaxManifests)]
               \cup
               [handler : {"cur2"},
                manifests : SeqsUpTo(Cur2SourcePool, MaxManifests)]
    /\ fout = <<>>
    /\ fpc = "input"

\* the orders in which n futures can complete
CompletionOrders(n) ==
    { order \in [1..n -> 1..n] : \A i, j \in 1..n : order[i] = order[j] => i = j }

PatternsCur1 ==
    /\ fpc = "input"
    /\ fin.handler = "cur1"
    /\ \E order \in CompletionOrders(Len(ZipTasks(
                        SelectSeq(fin.manifests, cur1_manifest_contains_zip_files)))) :
          fout' = cur1_get_csv_patterns(fin.manifests, order)
    /\ fpc' = "done"
    /\ UNCHANGED fin
    /\ compUnchanged

PatternsCur2 ==
    /\ fpc = "input"
    /\ fin.handler = "cur2"
    /\ fout' = cur2_get_csv_patterns(fin.manifests)
    /\ fpc' = "done"
    /\ UNCHANGED fin
    /\ compUnchanged

SpecPatterns == InitPatterns /\ [][PatternsCur1 \/ PatternsCur2]_vars

\* C12: source resolution over a non-empty list of manifests never returns
\* an empty list of sources; when no source is produced it raises, for the
\* legacy and for the modern handler.
C12_NoSourcesIsFatal ==
    (fpc = "done" /\ fin.manifests # <<>>) =>
        (fout.raised \/ fout.patterns # <<>>)

\* the legacy handler returned an empty list for a manifest whose only
\* archive could not be extracted
C12_LegacyReturnedNothing ==
    /\ fpc = "done"
    /\ fin.handler = "cur1"
    /\ Len(fin.manifests) = 1
    /\ cur1_manifest_contains_zip_files(fin.manifests[1])
    /\ ~fout.raised
    /\ fout.patterns = <<>>

(***************************************************************************)
(* DuckDB.load_csv_files_bulk (duckdb_client.py), the batched loader       *)
(* A pattern is [name, columns]: a CSV file and its header.  The table     *)
(* raw_reports is [columns, rows]; a row block is [batch, values]: the     *)
(* rows one batch added and the columns that hold their data (the others   *)
(* are NULL).                                                              *)
(*   fin  = [csv_patterns, batch_size]                                     *)
(*   fout = [next, table_created, table, failed, result]                   *)
(***************************************************************************)
DefaultBatchSize == 10
FILENAME_COLUMN == "filename"

CsvPattern(name, columns) == [name |-> name, columns |-> columns]

\* the columns read_csv_auto gives a batch: union_by_name over its files,
\* then the filename column
RECURSIVE UnionColumns(_, _)
UnionColumns(batch, columns) ==
    IF batch = <<>> THEN columns
    ELSE UnionColumns(Tail(batch),
             columns \o SelectSeq(Head(batch).columns,
                                  LAMBDA c : c \notin Range(columns)))

ReadCsvColumns(batch) == UnionColumns(batch, <<>>) \o <<FILENAME_COLUMN>>

\* csv_patterns[i:i + batch_size], i counting from 1
BatchAt(csv_patterns, i, batch_size) ==
    SubSeq(csv_patterns, i,
           IF i + batch_size - 1 < Len(csv_patterns) THEN i + batch_size - 1
           ELSE Len(csv_patterns))

\* _get_batch_columns / _get_table_columns_with_filename: the columns, or []
\* when the statement raised
ProbeColumns(probe_ok, columns) ==
    IF probe_ok THEN [raised |-> FALSE, columns |-> columns]
    ELSE [raised |-> FALSE, columns |-> <<>>]

NoTable == [columns |-> <<>>, rows |-> <<>>]

BulkStart == [next |-> 1, table_created |-> FALSE, table |-> NoTable,
              failed |-> {}, result |-> "running"]

\* the values of select_parts that are columns of the batch, not NULL
SelectedValues(table_cols, batch_cols) ==
    {c \in Range(table_cols) : c \in Range(batch_cols)}

\* one pass of the loop of load_csv_files_bulk over the batch at fout.next.
\* A statement raises when the flag of its step says so, and by SQL: ADD
\* COLUMN of a column the table has, INSERT of a select list that is not as
\* long as the table is wide.  Any exception ends the method with False.
LoadBatchResult(state, batch, read_ok, batch_probe_ok, table_probe_ok, alter_ok, reprobe_ok) ==
    LET failing(steps) == [state EXCEPT !.failed = @ \cup steps, !.result = "False"]
    IN
    IF ~state.table_created
    THEN IF read_ok
         THEN [state EXCEPT
                 !.table_created = TRUE,
                 !.table = [columns |-> ReadCsvColumns(batch),
                            rows |-> << [batch |-> batch,
                                         values |-> Range(ReadCsvColumns(batch))] >>],
                 !.next = @ + Len(batch)]
         ELSE failing({"load"})
    ELSE
      LET batch_probe == ProbeColumns(batch_probe_ok, ReadCsvColumns(batch))
          table_probe == ProbeColumns(table_probe_ok, state.table.columns)
          probe_failed == (IF batch_probe_ok THEN {} ELSE {"probe_batch"})
                          \cup (IF table_probe_ok THEN {} ELSE {"probe_table"})
          batch_cols == batch_probe.columns
          new_cols == SelectSeq(batch_cols,
                                LAMBDA c : c \notin Range(table_probe.columns))
          alter_raises == \/ ~alter_ok
                          \/ \E c \in Range(new_cols) : c \in Range(state.table.columns)
          altered == state.table.columns \o new_cols
          reprobe == ProbeColumns(reprobe_ok, altered)
          table_cols == IF new_cols # <<>> THEN reprobe.columns
                        ELSE table_probe.columns
          reprobe_failed == IF new_cols # <<>> /\ ~reprobe_ok
                            THEN {"probe_table"} ELSE {}
          insert_raises == ~read_ok \/ Len(table_cols) # Len(altered)
      IN  IF batch_probe.raised \/ table_probe.raised
          THEN failing(probe_failed)
          ELSE IF new_cols # <<>> /\ alter_raises
          THEN failing(probe_failed \cup (IF alter_ok THEN {} ELSE {"add_column"}))
          ELSE IF new_cols # <<>> /\ reprobe.raised
          THEN failing(probe_failed \cup reprobe_failed)
          ELSE IF insert_raises
          THEN failing(probe_failed \cup reprobe_failed
                       \cup (IF read_ok THEN {} ELSE {"load"}))
          ELSE [state EXCEPT
                  !.failed = @ \cup probe_failed \cup reprobe_failed,
                  !.table = [columns |-> altered,
                             rows |-> Append(state.table.rows,
                                         [batch |-> batch,
                                          values |-> SelectedValues(table_cols,
                                                                    batch_cols)])],
                  !.next = @ + Len(batch)]


(***************************************************************************)
(* SpecBulk: one call of load_csv_files_bulk, a batch per step; every      *)
(* statement of a batch may raise                                          *)
(***************************************************************************)
MaxPatterns == 3      \* CSV patterns in one call

CsvPatternPool ==
    { CsvPattern("x", <<"a">>), CsvPattern("y", <<"a", "b">>),
      CsvPattern("z", <<"b">>) }

BatchSizes == {1, 2, DefaultBatchSize}

InitBulk ==
    /\ CompIdle
    /\ \E csv_patterns \in SeqsUpTo(CsvPatternPool, MaxPatterns) :
       \E batch_size \in BatchSizes :
          fin = [csv_patterns |-> csv_patterns, batch_size |-> batch_size]
    /\ fout = BulkStart
    /\ fpc = "call"

\* if not csv_patterns: return False
BulkNoPatterns ==
    /\ fpc = "call"
    /\ fin.csv_patterns = <<>>
    /\ fout' = [fout EXCEPT !.result = "False"]
    /\ fpc' = "done"
    /\ UNCHANGED fin
    /\ compUnchanged

LoadBatch ==
    /\ fpc = "call"
    /\ fout.result = "running"
    /\ fout.next <= Len(fin.csv_patterns)
    /\ \E read_ok, batch_probe_ok, table_probe_ok, alter_ok, reprobe_ok \in BOOLEAN :
          fout' = LoadBatchResult(fout,
                      BatchAt(fin.csv_patterns, fout.next, fin.batch_size),
                      read_ok, batch_probe_ok, table_probe_ok, alter_ok, reprobe_ok)
    /\ UNCHANGED <<fin, fpc>>
    /\ compUnchanged

\* return True after the last batch, False from the except clause
BulkReturn ==
    /\ fpc = "call"
    /\ fin.csv_patterns # <<>>
    /\ \/ /\ fout.result = "running"
          /\ fout.next > Len(fin.csv_patterns)
          /\ fout' = [fout EXCEPT !.result = "True"]
       \/ /\ fout.result = "False"
          /\ UNCHANGED fout
    /\ fpc' = "done"
    /\ UNCHANGED fin
    /\ compUnchanged

NextBulk == BulkNoPatterns \/ LoadBatch \/ BulkReturn

SpecBulk == InitBulk /\ [][NextBulk]_vars

\* the rows of every batch hold the data of the batch's own columns
RowsHoldBatchData ==
    \A k \in DOMAIN fout.table.rows :
        fout.table.rows[k].values = Range(ReadCsvColumns(fout.table.rows[k].batch))

\* C13: a failure while loading a batch, probing a batch's columns or adding
\* a column aborts the load and is surfaced to the caller as a failure: the
\* load never reports success after a failed step, and never inserts a batch
\* after a failed probe of its columns.
C13_BulkLoadFailureSurfaced ==
    /\ fpc = "done" /\ fout.failed # {} => fout.result = "False"
    /\ fout.table_created => RowsHoldBatchData

\* the column probe of a later batch raised, the batch was inserted as NULLs
\* and the load reported success
C13_FailedProbeInsertedNulls ==
    /\ fpc = "done"
    /\ fout.result = "True"
    /\ "probe_batch" \in fout.failed
    /\ \E k \in DOMAIN fout.table.rows : fout.table.rows[k].values = {}

\* a failed load of a batch or a failed ADD COLUMN does end the load with False
LoadAndAlterFailuresSurfaced ==
    fpc = "done" /\ fout.failed \cap {"load", "add_column"} # {}
        => fout.result = "False"


(***************************************************************************)
(* ReportVersionDetector.detect_version and ReportHandlerFactory           *)
(* .create_handler.  An S3 object is its Key, a sequence of characters.    *)
(*   fin  = [s3_objects, version]     fout = [detected, handler]           *)
(***************************************************************************)
MaxObjects == 2       \* S3 objects in one listing

\* re.search(r"\d{8}-\d{8}", key)
SearchDatePattern(key) ==
    \E i \in 1..Len(key) :
        /\ i + 16 <= Len(key)
        /\ AllDigits(SubSeq(key, i, i + 7))
        /\ key[i + 8] = "-"
        /\ AllDigits(SubSeq(key, i + 9, i + 16))

\* any(pred(obj["Key"]) for obj in s3_objects)
AnyKey(s3_objects, pred(_)) ==
    \E i \in 1..Len(s3_objects) : pred(s3_objects[i])

SlashMetadataSlash == <<"/">> \o MetadataFolder \o <<"/">>
DotCsvDotZip == <<".", "c", "s", "v", ".", "z", "i", "p">>

\* a detector that looks for the metadata folder before the date folders
detect_version_metadata_first(s3_objects) ==
    IF s3_objects = <<>> THEN "legacy"
    ELSE IF AnyKey(s3_objects, LAMBDA key : Contains(key, BillingPeriodEq))
    THEN "modern"
    ELSE IF AnyKey(s3_objects, LAMBDA key : Contains(key, SlashMetadataSlash))
    THEN "modern"
    ELSE IF AnyKey(s3_objects, SearchDatePattern)
    THEN "legacy"
    ELSE IF AnyKey(s3_objects, LAMBDA key : EndsWith(key, DotCsvDotZip))
    THEN "legacy"
    ELSE "legacy"

\* ReportVersionDetector.detect_version
detect_version(s3_objects) ==
    IF s3_objects = <<>> THEN "legacy"
    ELSE IF AnyKey(s3_objects, LAMBDA key : Contains(key, BillingPeriodEq))
    THEN "modern"
    ELSE IF AnyKey(s3_objects, SearchDatePattern)
    THEN "legacy"
    ELSE IF AnyKey(s3_objects, LAMBDA key : Contains(key, SlashMetadataSlash))
    THEN "modern"
    ELSE IF AnyKey(s3_objects, LAMBDA key : EndsWith(key, DotCsvDotZip))
    THEN "legacy"
    ELSE "legacy"

\* ReportHandlerFactory.create_handler: s3_objects is not looked at
create_handler(s3_objects, version) ==
    IF version = "cur2" THEN "CUR2ReportHandler"
    ELSE IF version \in {"None", "", "cur1"} THEN "CUR1ReportHandler"
    ELSE "ValueError"

DetectKeyPool ==
    { Path(<<MetadataFolder, BillingPeriodFolder(2024, 9), <<"M">> >>),
      Path(<<FolderOf(Ymd(2024, 1, 1), Ymd(2024, 1, 31)), <<"r">> \o DotCsvDotZip>>),
      Path(<<ReportName, MetadataFolder, <<"M">> >>),
      Path(<<ReportName, <<"x">> \o DotCsvDotZip>>),
      Path(<<ReportName, ChunkName>>),
      Path(<<ReportName, FolderOf(<<"2", "0", "2", "4", "0", "1", "0">>, Ymd(2024, 1, 31)), <<"M">> >>),
      Path(<<ReportName, MetadataFolder, FolderOf(Ymd(2024, 1, 1), Ymd(2024, 1, 31)), <<"M">> >>),
      Path(<<MetadataFolder, <<"x">> \o DotCsvDotZip \o <<".", "g", "z">> >>) }

VersionPool == {"None", "", "cur1", "cur2", "cur3"}

InitDetect ==
    /\ CompIdle
    /\ \E s3_objects \in SeqsUpTo(DetectKeyPool, MaxObjects) :
       \E version \in VersionPool :
          fin = [s3_objects |-> s3_objects, version |-> version]
    /\ fout = [detected |-> "", handler |-> ""]
    /\ fpc = "input"

DetectVersion ==
    /\ fpc = "input"
    /\ fout' = [fout EXCEPT !.detected = detect_version(fin.s3_objects)]
    /\ fpc' = "detected"
    /\ UNCHANGED fin
    /\ compUnchanged

CreateHandler ==
    /\ fpc = "detected"
    /\ fout' = [fout EXCEPT !.handler = create_handler(fin.s3_objects, fin.version)]
    /\ fpc' = "done"
    /\ UNCHANGED fin
    /\ compUnchanged

SpecDetect == InitDetect /\ [][DetectVersion \/ CreateHandler]_vars

\* C15: without an explicit version, the handler created for a listing is the
\* one of the variant detect_version finds in it: CUR 2.0 for modern, CUR 1.0
\* for legacy.
C15_HandlerMatchesDetectedVariant ==
    (fpc = "done" /\ fin.version = "None") =>
        fout.handler = IF fout.detected = "modern" THEN "CUR2ReportHandler"
                       ELSE "CUR1ReportHandler"

\* a listing detected as modern was given the CUR 1.0 handler
C15_ModernListingGotLegacyHandler ==
    /\ fpc = "done"
    /\ fin.version = "None"
    /\ fout.detected = "modern"
    /\ fout.handler = "CUR1ReportHandler"

SomeKey(pred(_)) == \E key \in Range(fin.s3_objects) : pred(key)

\* C16: detect_version answers by the first rule that some key matches, in
\* the order BILLING_PERIOD= (modern), eight digits-dash-eight digits
\* (legacy), /metadata/ (modern), .csv.zip ending (legacy), else legacy, the
\* empty listing included; the answer is the same for the reversed listing.
C16_FirstMatchingRule ==
    fpc # "input" =>
      /\ fout.detected =
           IF SomeKey(LAMBDA key : Contains(key, BillingPeriodEq)) THEN "modern"
           ELSE IF SomeKey(SearchDatePattern) THEN "legacy"
           ELSE IF SomeKey(LAMBDA key : Contains(key, SlashMetadataSlash)) THEN "modern"
           ELSE "legacy"
      /\ fout.detected =
           detect_version([i \in 1..Len(fin.s3_objects) |->
                              fin.s3_objects[Len(fin.s3_objects) + 1 - i]])

\* a listing with a /metadata/ key first and a date folder key after it, and
\* no BILLING_PERIOD= key, is legacy
C16_DateFolderBeatsMetadata ==
    /\ fpc # "input"
    /\ Len(fin.s3_objects) = 2
    /\ Contains(fin.s3_objects[1], SlashMetadataSlash)
    /\ ~SearchDatePattern(fin.s3_objects[1])
    /\ SearchDatePattern(fin.s3_objects[2])
    /\ fout.detected = "legacy"


(***************************************************************************)
(* The assemblyId of a retrieved manifest (retrieve_manifests of either    *)
(* handler).  A manifest body is a function from the keys it holds to      *)
(* their values, sequences of characters.                                  *)
(*   fin  = [variant, manifests], a manifest being [period, body]          *)
(*   fout = the enriched bodies                                            *)
(***************************************************************************)
Unknown == <<"u", "n", "k", "n", "o", "w", "n">>
Cur1Prefix == <<"c", "u", "r", "1">>
Cur2Prefix == <<"c", "u", "r", "2">>

\* f"cur1-{parent_folder_name}-{manifest.get('account', 'unknown')}" and
\* f"cur2-{period}-{manifest.get('account', 'unknown')}"
GeneratedId(prefix, period, manifest) ==
    prefix \o <<"-">> \o period \o <<"-">> \o DictGet(manifest, "account", Unknown)

\* manifest["period"] = ...; if "assemblyId" not in manifest:
\*     manifest["assemblyId"] = manifest.get("reportId", f"...")
EnsureAssemblyId(prefix, period, manifest) ==
    LET assemblyId ==
            IF "assemblyId" \in DOMAIN manifest THEN manifest["assemblyId"]
            ELSE DictGet(manifest, "reportId", GeneratedId(prefix, period, manifest))
    IN  [k \in DOMAIN manifest \cup {"assemblyId", "period"} |->
            IF k = "assemblyId" THEN assemblyId
            ELSE IF k = "period" THEN period
            ELSE manifest[k]]

BodyFieldValues(k) ==
    IF k = "assemblyId" THEN { <<"A">> }
    ELSE IF k = "reportId" THEN { <<"R">> }
    ELSE { <<"5">>, <<"0", "2", "-", "5">> }

AllFieldValues == UNION { BodyFieldValues(k) : k \in {"assemblyId", "reportId", "account"} }

ManifestBodyPool ==
    UNION { { body \in [D -> AllFieldValues] : \A k \in D : body[k] \in BodyFieldValues(k) } :
            D \in SUBSET {"assemblyId", "reportId", "account"} }

PeriodPool(variant) ==
    IF variant = "1.0"
    THEN { FolderOf(Ymd(2024, 1, 1), Ymd(2024, 2, 1)),
           FolderOf(Ymd(2024, 2, 1), Ymd(2024, 3, 1)) }
    ELSE { Y4(2024) \o <<"-">> \o D2(1),
           Y4(2024) \o <<"-">> \o D2(1) \o <<"-">> \o D2(2) }

InitAssembly ==
    /\ CompIdle
    /\ \E variant \in {"1.0", "2.0"} :
       \E p1, p2 \in PeriodPool(variant) :
       \E b1, b2 \in ManifestBodyPool :
          fin = [variant |-> variant,
                 manifests |-> << [period |-> p1, body |-> b1],
                                  [period |-> p2, body |-> b2] >>]
    /\ fout = <<>>
    /\ fpc = "input"

AssignAssemblyIds ==
    /\ fpc = "input"
    /\ fout' = [i \in 1..Len(fin.manifests) |->
                  EnsureAssemblyId(IF fin.variant = "1.0" THEN Cur1Prefix ELSE Cur2Prefix,
                                   fin.manifests[i].period, fin.manifests[i].body)]
    /\ fpc' = "done"
    /\ UNCHANGED fin
    /\ compUnchanged

SpecAssembly == InitAssembly /\ [][AssignAssemblyIds]_vars

NoAssemblyIdInBody(i) == "assemblyId" \notin DOMAIN fin.manifests[i].body

DeclaredAccount(i) == DictGet(fin.manifests[i].body, "account", Unknown)

\* C17: every retrieved manifest has an assemblyId; when the body has none,
\* the id is made of the variant, the period token and the declared account
\* (or "unknown") alone, and two such manifests of different periods or
\* different accounts never get the same id.
C17_AssemblyIdSynthesized ==
    fpc = "done" =>
      /\ \A i \in 1..Len(fout) : "assemblyId" \in DOMAIN fout[i]
      /\ \A i \in 1..Len(fout) : NoAssemblyIdInBody(i) =>
            fout[i].assemblyId =
                (IF fin.variant = "1.0" THEN Cur1Prefix ELSE Cur2Prefix)
                    \o <<"-">> \o fin.manifests[i].period
                    \o <<"-">> \o DeclaredAccount(i)
      /\ \A i, j \in 1..Len(fout) :
            ( /\ NoAssemblyIdInBody(i) /\ NoAssemblyIdInBody(j)
              /\ \/ fin.manifests[i].period # fin.manifests[j].period
                 \/ DeclaredAccount(i) # DeclaredAccount(j) )
            => fout[i].assemblyId # fout[j].assemblyId

\* two manifests of different periods, neither with an assemblyId, both got
\* the reportId of their bodies as assemblyId
C17_ReportIdSharedAcrossPeriods ==
    /\ fpc = "done"
    /\ NoAssemblyIdInBody(1) /\ NoAssemblyIdInBody(2)
    /\ fin.manifests[1].period # fin.manifests[2].period
    /\ "reportId" \in DOMAIN fin.manifests[1].body
    /\ fout[1].assemblyId = fout[2].assemblyId

\* without a reportId the id is the generated one, and the legacy ids of
\* different periods or accounts differ
GeneratedIdWithoutReportId ==
    fpc = "done" =>
      \A i, j \in 1..Len(fout) :
        ( /\ DOMAIN fin.manifests[i].body \cap {"assemblyId", "reportId"} = {}
          /\ DOMAIN fin.manifests[j].body \cap {"assemblyId", "reportId"} = {} )
        => /\ fout[i].assemblyId =
                GeneratedId(IF fin.variant = "1.0" THEN Cur1Prefix ELSE Cur2Prefix,
                            fin.manifests[i].period, fin.manifests[i].body)
           /\ ( /\ fin.variant = "1.0"
                /\ \/ fin.manifests[i].period # fin.manifests[j].period
                   \/ DeclaredAccount(i) # DeclaredAccount(j) )
              => fout[i].assemblyId # fout[j].assemblyId

\* two modern manifests without reportId, of different periods and accounts,
\* whose generated ids are the same text
ModernGeneratedIdsCollide ==
    /\ fpc = "done"
    /\ fin.variant = "2.0"
    /\ \A i \in 1..2 : DOMAIN fin.manifests[i].body \cap {"assemblyId", "reportId"} = {}
    /\ fin.manifests[1].period # fin.manifests[2].period
    /\ fout[1].assemblyId = fout[2].assemblyId


(***************************************************************************)
(* SpecRange: the period parsers on every text of a pool: the modern       *)
(* _parse_billing_period_range on period tokens, the legacy                *)
(* _try_parse_billing_period_from_folder_name on folder names.             *)
(*   fin = [variant, text]     fout = the (start, end) returned            *)
(***************************************************************************)
RangeYears == {0, 1, 1900, 2000, 2015, 2020, 2023, 2024, 9999}

MonthlyToken(year, month) == Y4(year) \o <<"-">> \o D2(month)
WeeklyToken(year, week) == Y4(year) \o <<"W">> \o D2(week)

PeriodTokenPool ==
    { MonthlyToken(y, m) : y \in RangeYears, m \in 0..13 }
    \cup { WeeklyToken(y, w) : y \in RangeYears, w \in 0..54 }
    \cup { Y4(y) : y \in RangeYears }
    \cup { MonthlyToken(2024, m) \o <<"-">> \o D2(d) : m \in {2, 9}, d \in {0, 15, 29, 30} }
    \cup { <<"2", "0", "2", "4", "W", "1">>, <<"2", "0", "2", "4", "-", "1">>,
           <<"W">>, NotADate, <<>> }

FolderDates == { Ymd(2023, 12, 31), Ymd(2024, 1, 1), Ymd(2024, 1, 31),
                 Ymd(2024, 2, 30), NotADate }

FolderNamePool ==
    { FolderOf(a, b) : a, b \in FolderDates }
    \cup { Ymd(2024, 1, 1), MetadataFolder, FolderOf(FolderOf(Ymd(2024, 1, 1), Ymd(2024, 1, 31)), <<"x">>) }

InitRange ==
    /\ CompIdle
    /\ \/ \E period \in PeriodTokenPool : fin = [variant |-> "2.0", text |-> period]
       \/ \E folder_name \in FolderNamePool : fin = [variant |-> "1.0", text |-> folder_name]
    /\ fout = NoRange
    /\ fpc = "input"

ParseBillingPeriodRange ==
    /\ fpc = "input"
    /\ fin.variant = "2.0"
    /\ fout' = parse_billing_period_range(fin.text)
    /\ fpc' = "done"
    /\ UNCHANGED fin
    /\ compUnchanged

TryParseFolderName ==
    /\ fpc = "input"
    /\ fin.variant = "1.0"
    /\ fout' = try_parse_billing_period_from_folder_name(fin.text)
    /\ fpc' = "done"
    /\ UNCHANGED fin
    /\ compUnchanged

SpecRange == InitRange /\ [][ParseBillingPeriodRange \/ TryParseFolderName]_vars

\* C18: for every period token the modern range parser parses, and for every
\* legacy folder name accepted as a billing-period folder (its start date
\* parses), the end date exists and is not earlier than the start date.
C18_PeriodEndNotBeforeStart ==
    (fpc = "done" /\ fout.start # NoDate) =>
        (fout.end # NoDate /\ DateLE(fout.start, fout.end))

\* a legacy folder name whose second date is earlier than its first is
\* accepted with end before start
C18_ReversedFolderAccepted ==
    /\ fpc = "done"
    /\ fin.variant = "1.0"
    /\ fout.start # NoDate /\ fout.end # NoDate
    /\ ~DateLE(fout.start, fout.end)

\* the modern parser alone keeps end on or after start
ModernEndNotBeforeStart ==
    (fpc = "done" /\ fin.variant = "2.0" /\ fout.start # NoDate) =>
        (fout.end # NoDate /\ DateLE(fout.start, fout.end))

IsMonthlyToken == fin.variant = "2.0" /\ MatchMonthly(fin.text)
TokenYear == ToInt(SubSeq(fin.text, 1, 4))
TokenNumber == ToInt(SubSeq(fin.text, 6, 7))

\* C19: for every YYYY-MM token of a year 0001..9999 and a month 01..12 the
\* range parser returns the 1st of that month and its last calendar day: 31
\* for the long months, 30 for April, June, September and November, and for
\* February 29 in a leap year (divisible by 4 and not by 100, or by 400) and
\* 28 otherwise.
C19_MonthlyRange ==
    (fpc = "done" /\ IsMonthlyToken /\ TokenYear \in 1..9999 /\ TokenNumber \in 1..12) =>
        /\ fout.start = Date(TokenYear, TokenNumber, 1)
        /\ fout.end.year = TokenYear /\ fout.end.month = TokenNumber
        /\ fout.end.day =
             IF TokenNumber \in {1, 3, 5, 7, 8, 10, 12} THEN 31
             ELSE IF TokenNumber \in {4, 6, 9, 11} THEN 30
             ELSE IF TokenYear % 400 = 0 THEN 29
             ELSE IF TokenYear % 100 = 0 THEN 28
             ELSE IF TokenYear % 4 = 0 THEN 29
             ELSE 28

\* February of the century year 1900 ends on the 28th
C19_CenturyFebruary ==
    /\ fpc = "done"
    /\ fin.text = MonthlyToken(1900, 2)
    /\ fout.end = Date(1900, 2, 28)

IsWeeklyToken == fin.variant = "2.0" /\ MatchWeekly(fin.text)

\* the Thursday of ISO week nn of a year: the first Thursday of the calendar
\* year and nn - 1 weeks
FirstThursday(year) ==
    CHOOSE n \in ToOrdinal(Date(year, 1, 1))..ToOrdinal(Date(year, 1, 7)) :
        (n + 6) % 7 = 3
WeekThursday(year, week) == FirstThursday(year) + 7 * (week - 1)

\* the year has an ISO week of this number: its Thursday lies in the year
IsIsoWeekOf(year, week) ==
    /\ year \in 1..9999
    /\ week >= 1
    /\ WeekThursday(year, week) <= ToOrdinal(Date(year, 12, 31))

IsMondayToSundayOfWeek(range, year, week) ==
    /\ range.start # NoDate /\ range.end # NoDate
    /\ ToOrdinal(range.end) - ToOrdinal(range.start) = 6
    /\ Weekday(range.start) = 0
    /\ ToOrdinal(range.start) = WeekThursday(year, week) - 3

\* C20 as stated: for every ISO week input YYYYWnn the range parser returns
\* Monday..Sunday of ISO week nn of ISO year YYYY, end - start being 6 days.
C20_EveryIsoWeekParsed ==
    (fpc = "done" /\ IsWeeklyToken /\ IsIsoWeekOf(TokenYear, TokenNumber)) =>
        IsMondayToSundayOfWeek(fout, TokenYear, TokenNumber)

\* C20: for every ISO week input YYYYWnn whose Sunday is not after
\* 9999-12-31 the range parser returns Monday..Sunday of ISO week nn of ISO
\* year YYYY (week 1 holding the year's first Thursday), end - start being 6
\* days and start a Monday; for the one ISO week whose Sunday is later
\* (9999W52) and for a week number the year does not have it returns no range.
C20_IsoWeekRange ==
    (fpc = "done" /\ IsWeeklyToken) =>
        IF /\ IsIsoWeekOf(TokenYear, TokenNumber)
           /\ WeekThursday(TokenYear, TokenNumber) + 3 <= ToOrdinal(Date(9999, 12, 31))
        THEN IsMondayToSundayOfWeek(fout, TokenYear, TokenNumber)
        ELSE fout = NoRange

\* week 53 of 2020 is parsed as 2020-12-28 .. 2021-01-03, and week 1 of 2021,
\* a year that begins on a Friday, would begin on 2021-01-04
C20_Week53CrossesYear ==
    /\ fpc = "done"
    /\ fin.text = WeeklyToken(2020, 53)
    /\ fout = [start |-> Date(2020, 12, 28), end |-> Date(2021, 1, 3)]


IsDailyToken == fin.variant = "2.0" /\ MatchDaily(fin.text)
IsYearlyToken == fin.variant = "2.0" /\ MatchYearly(fin.text)
TokenDay == ToInt(SubSeq(fin.text, 9, 10))

\* the period tokens of a supported shape that name a possible period
IsPossiblePeriod ==
    \/ /\ IsDailyToken /\ TokenYear \in 1..9999 /\ TokenNumber \in 1..12
       /\ TokenDay >= 1
       /\ TokenDay <= (IF TokenNumber \in {1, 3, 5, 7, 8, 10, 12} THEN 31
                       ELSE IF TokenNumber # 2 THEN 30
                       ELSE IF TokenYear % 4 = 0 /\ (TokenYear % 100 # 0 \/ TokenYear % 400 = 0)
                       THEN 29 ELSE 28)
    \/ IsMonthlyToken /\ TokenYear \in 1..9999 /\ TokenNumber \in 1..12
    \/ IsYearlyToken /\ ToInt(fin.text) \in 1..9999
    \/ /\ IsWeeklyToken /\ IsIsoWeekOf(TokenYear, TokenNumber)
       /\ WeekThursday(TokenYear, TokenNumber) + 3 <= ToOrdinal(Date(9999, 12, 31))

\* C21: the range parser is total: a possible YYYY-MM-DD gives [d, d], a
\* possible YYYY gives [Jan 1, Dec 31], every text of no supported shape or
\* naming an impossible date gives (None, None), and no result has only one
\* of its two dates.
C21_RangeParserTotal ==
    (fpc = "done" /\ fin.variant = "2.0") =>
        /\ (fout.start = NoDate) = (fout.end = NoDate)
        /\ IsPossiblePeriod = (fout # NoRange)
        /\ (IsDailyToken /\ IsPossiblePeriod) =>
              /\ fout.start = Date(TokenYear, TokenNumber, TokenDay)
              /\ fout.end = fout.start
        /\ (IsYearlyToken /\ IsPossiblePeriod) =>
              /\ fout.start = Date(ToInt(fin.text), 1, 1)
              /\ fout.end = Date(ToInt(fin.text), 12, 31)

\* day 30 of February was asked for and the parser answered (None, None)
C21_ImpossibleDayInvalid ==
    /\ fpc = "done"
    /\ fin.text = MonthlyToken(2024, 2) \o <<"-", "3", "0">>
    /\ fout = NoRange


(***************************************************************************)
(* SpecNormalize: normalize_column_names_for_kbc on one raw column name,   *)
(* every text of at most MaxNameLen characters of NameAlphabet, and the    *)
(* select lists built for a table that holds this one column.              *)
(*   fin = the raw name     fout = [normalized, aligned, view]             *)
(***************************************************************************)
MaxNameLen == 3       \* characters in one raw column name

NameAlphabet == {"a", "B", "1", "_", "/", ":", " ", "-", "U+0663"}

InitNormalize ==
    /\ CompIdle
    /\ fin \in SeqsUpTo(NameAlphabet, MaxNameLen)
    /\ fout = [normalized |-> <<>>, aligned |-> <<>>, view |-> <<>>]
    /\ fpc = "input"

NormalizeCall ==
    /\ fpc = "input"
    /\ fout' = [fout EXCEPT !.normalized = normalize_column_names_for_kbc(<<fin>>)]
    /\ fpc' = "normalized"
    /\ UNCHANGED fin
    /\ compUnchanged

AsciiWordChars == Letters \cup Digits \cup {"_"}

\* the name with "/" replaced by "__" and every other character outside
\* [A-Za-z0-9_] by "_"
RECURSIVE KbcName(_)
KbcName(raw) ==
    IF raw = <<>> THEN <<>>
    ELSE (IF Head(raw) = "/" THEN <<"_", "_">>
          ELSE IF Head(raw) \in AsciiWordChars THEN <<Head(raw)>>
          ELSE <<"_">>) \o KbcName(Tail(raw))

\* C23: normalize_column_names_for_kbc replaces each "/" by "__" and every
\* other character outside letters, digits and underscore by one "_": the
\* output holds only characters of [A-Za-z0-9_].
C23_NormalizedNameIsAsciiWord ==
    fpc # "input" =>
        /\ fout.normalized = << KbcName(fin) >>
        /\ \A i \in 1..Len(fout.normalized[1]) :
              fout.normalized[1][i] \in AsciiWordChars

\* a raw name with a decimal digit outside ASCII came out with that digit
C23_UnicodeDigitKept ==
    /\ fpc # "input"
    /\ \E i \in 1..Len(fout.normalized[1]) : fout.normalized[1][i] \in UnicodeDigits

\* for raw names of ASCII letters, digits and punctuation the mapping is the
\* stated one
AsciiNameNormalized ==
    (fpc # "input" /\ Range(fin) \cap UnicodeDigits = {}) =>
        /\ fout.normalized = << KbcName(fin) >>
        /\ \A i \in 1..Len(fout.normalized[1]) :
              fout.normalized[1][i] \in AsciiWordChars

\* build_column_aligned_select and create_unified_view for the normalized
\* name, the table or batch holding the raw column
BuildSelects ==
    /\ fpc = "normalized"
    /\ fout' = [fout EXCEPT
                  !.aligned = build_column_aligned_select(fout.normalized, {fin}),
                  !.view = create_unified_view_select(fout.normalized, {fin})]
    /\ fpc' = "done"
    /\ UNCHANGED fin
    /\ compUnchanged

SpecNormalize == InitNormalize /\ [][NormalizeCall \/ BuildSelects]_vars

\* C26: for every raw column name present in the table or batch,
\* de-normalizing its normalized name gives the raw name back, so the aligned
\* insert and the unified view select the raw column under the normalized
\* name and never a NULL.
C26_NormalizationRoundTrip ==
    fpc = "done" =>
        /\ Denormalize(fout.normalized[1]) = fin
        /\ fout.aligned = << ColumnExpr(fin, NoAlias) >>
        /\ fout.view = << ColumnExpr(fin, fout.normalized[1]) >>

\* the raw column "a:B" is present, and both select lists hold a NULL for
\* its normalized name "a_B"
C26_PresentColumnSelectedAsNull ==
    /\ fpc = "done"
    /\ fin = <<"a", ":", "B">>
    /\ fout.aligned = << NullExpr(<<"a", "_", "B">>) >>
    /\ fout.view = << NullExpr(<<"a", "_", "B">>) >>

\* raw names whose only rewritten character is "/", none of them next to
\* another "/" or to "_", do come back
SlashOnlyRoundTrip ==
    ( /\ fpc = "done"
      /\ Range(fin) \subseteq {"a", "B", "1", "/"}
      /\ \A i \in 1..(Len(fin) - 1) : ~(fin[i] = "/" /\ fin[i + 1] = "/") )
    => /\ Denormalize(fout.normalized[1]) = fin
       /\ fout.view = << ColumnExpr(fin, fout.normalized[1]) >>


\* the columns of the batches committed up to the k-th one
ColumnsUpTo(k) ==
    UNION { Range(ReadCsvColumns(fout.table.rows[j].batch)) : j \in 1..k }

\* C24: after a batch is committed the table's columns are a superset of the
\* union of the columns of all batches committed so far, every batch's own
\* columns having been added before its rows were inserted, and the rows of
\* a batch hold NULL in every column first introduced by a later batch.
C24_TableCoversCommittedBatches ==
    fout.table_created =>
        \A k \in DOMAIN fout.table.rows :
            /\ ColumnsUpTo(k) \subseteq Range(fout.table.columns)
            /\ fout.table.rows[k].values \subseteq ColumnsUpTo(k)

\* a batch with a column the table does not have was committed after its
\* column probe had failed, and the column was never added
C24_BatchColumnNeverAdded ==
    /\ fout.table_created
    /\ "probe_batch" \in fout.failed
    /\ \E k \in DOMAIN fout.table.rows :
          ~(Range(ReadCsvColumns(fout.table.rows[k].batch))
                \subseteq Range(fout.table.columns))

\* as long as no column probe of a batch has failed the table covers the
\* committed batches, and no step removes a column
SchemaEvolvesWithoutProbeFailure ==
    /\ []("probe_batch" \notin fout.failed => C24_TableCoversCommittedBatches)
    /\ [][Range(fout.table.columns) \subseteq Range(fout'.table.columns)]_vars


\* the reportKeys of the manifests, manifest after manifest
RECURSIVE FlatKeys(_)
FlatKeys(manifests) ==
    IF manifests = <<>> THEN <<>>
    ELSE Head(manifests).reportKeys \o FlatKeys(Tail(manifests))

\* the data file a source location was made of
SourceName(pattern) ==
    IF pattern.kind = "local" THEN pattern.name[2] ELSE pattern.name

RECURSIVE IsSubsequence(_, _)
IsSubsequence(a, b) ==
    IF a = <<>> THEN TRUE
    ELSE IF b = <<>> THEN FALSE
    ELSE IF Head(a) = Head(b) THEN IsSubsequence(Tail(a), Tail(b))
    ELSE IsSubsequence(a, Tail(b))

\* C27: the source locations of the legacy handler follow the order of the
\* manifests and, within a manifest, of its data files, for every completion
\* order of the extraction workers: the data files of the result, read in
\* order, are a subsequence of the data files of the manifests.
C27_SourcesInManifestOrder ==
    (fpc = "done" /\ fin.handler = "cur1") =>
        IsSubsequence([i \in 1..Len(fout.patterns) |-> SourceName(fout.patterns[i])],
                      [i \in 1..Len(FlatKeys(fin.manifests)) |->
                          FlatKeys(fin.manifests)[i].name])

\* the two archives of one manifest came back in the order their workers
\* finished, the second before the first
C27_ArchivesInCompletionOrder ==
    /\ fpc = "done" /\ fin.handler = "cur1"
    /\ Len(fin.manifests) = 1
    /\ fin.manifests[1].report_folder = "f8"
    /\ [i \in 1..Len(fout.patterns) |-> SourceName(fout.patterns[i])] = <<"i", "h">>

\* with no archive to extract the legacy sources follow the manifests
CsvSourcesInManifestOrder ==
    ( /\ fpc = "done" /\ fin.handler = "cur1"
      /\ \A i \in 1..Len(fin.manifests) :
            ~cur1_manifest_contains_zip_files(fin.manifests[i]) )
    => IsSubsequence([i \in 1..Len(fout.patterns) |-> SourceName(fout.patterns[i])],
                     [i \in 1..Len(FlatKeys(fin.manifests)) |->
                         FlatKeys(fin.manifests)[i].name])

\* the entries of reportKeys that are data files whose source can be had: a
\* .csv or .csv.gz key, or a .zip key whose archive extracts
IsLoadableKey(key) ==
    \/ KeyEndsWith(key, <<".">> \o ExtCsv)
    \/ KeyEndsWith(key, <<".">> \o ExtCsvGz)
    \/ KeyEndsWith(key, <<".">> \o ExtZip) /\ download_and_extract_zip(1, key).ok

\* C28: legacy source resolution loses no data file: every .csv, .csv.gz or
\* successfully extracted .zip entry of every manifest's reportKeys
\* contributes exactly one source location, also in a manifest that mixes
\* encodings.
C28_NoDataFileLost ==
    (fpc = "done" /\ fin.handler = "cur1") =>
        LET keys == FlatKeys(fin.manifests)
        IN  /\ Len(fout.patterns) = Len(SelectSeq(keys, IsLoadableKey))
            /\ \A i \in 1..Len(keys) :
                  IsLoadableKey(keys[i]) =>
                      \E j \in 1..Len(fout.patterns) :
                          SourceName(fout.patterns[j]) = keys[i].name

\* a manifest whose first entry is a CSV file and whose second is an archive
\* gave the CSV source only
C28_ArchiveOfCsvManifestLost ==
    /\ fpc = "done" /\ fin.handler = "cur1"
    /\ Len(fin.manifests) = 1
    /\ fin.manifests[1].report_folder = "f9"
    /\ fout.patterns = << Pattern("s3", "j") >>

\* manifests of one encoding lose no data file
UnmixedManifestsLoseNothing ==
    ( /\ fpc = "done" /\ fin.handler = "cur1"
      /\ \A i \in 1..Len(fin.manifests) :
            fin.manifests[i].report_folder \notin {"f9", "f10"} )
    => LET keys == FlatKeys(fin.manifests)
       IN  Len(fout.patterns) = Len(SelectSeq(keys, IsLoadableKey))

\* the batches of the row blocks, block after block
RECURSIVE FlatBatches(_)
FlatBatches(rows) ==
    IF rows = <<>> THEN <<>>
    ELSE Head(rows).batch \o FlatBatches(Tail(rows))

\* the loader's batches, one after the other, are the source list in its
\* order, each of at most batch_size sources
BatchesAreContiguousSlices ==
    LET loaded == FlatBatches(fout.table.rows)
    IN  /\ loaded = SubSeq(fin.csv_patterns, 1, Len(loaded))
        /\ Len(loaded) = fout.next - 1
        /\ \A k \in DOMAIN fout.table.rows :
              Len(fout.table.rows[k].batch) <= fin.batch_size


(***************************************************************************)
(* SpecManagerFilter: AWSReportManager.filter_manifests_by_date_range, the *)
(* filter Component._discover_available_reports calls, on manifests with   *)
(* a billingPeriod of two stamps.                                          *)
(*   fin = [manifests, since_timestamp, until_timestamp]   fout = the list *)
(***************************************************************************)
\* datetime.strftime(dt, "%Y%m%d")
strftime_Ymd(dt) == Y4(dt.year) \o D2(dt.month) \o D2(dt.day)

\* Python's >= on str
StrGE(a, b) == ~StrLess(a, b)

\* AWSReportManager.filter_manifests_by_date_range
aws_manager_filter_manifests_by_date_range(manifests, since_timestamp, until_timestamp) ==
    SelectSeq(manifests,
        LAMBDA manifest :
            /\ StrGE(strftime_Ymd(until_timestamp),
                     BeforeT(manifest.billingPeriod["start"]))
            /\ StrGE(BeforeT(manifest.billingPeriod["start"]),
                     strftime_Ymd(since_timestamp)))

ManagerFilterPool ==
    { FilterManifest("dec", <<>>,
          BillingPeriod(Cur1Stamp(2023, 12, 1), Cur1Stamp(2023, 12, 31))),
      FilterManifest("jan", <<>>,
          BillingPeriod(Cur1Stamp(2024, 1, 1), Cur1Stamp(2024, 1, 31))),
      FilterManifest("feb", <<>>,
          BillingPeriod(Cur1Stamp(2024, 2, 1), Cur1Stamp(2024, 2, 29))) }

ManagerSincePool == { DateTime(2024, 1, 1, 0), DateTime(2024, 1, 31, 0),
                      DateTime(2024, 2, 1, 12) }

InitManagerFilter ==
    /\ CompIdle
    /\ fin \in [manifests : SeqsUpTo(ManagerFilterPool, MaxManifests),
                since_timestamp : ManagerSincePool,
                until_timestamp : UntilPool]
    /\ fout = <<>>
    /\ fpc = "input"

ManagerFilterCall ==
    /\ fpc = "input"
    /\ fout' = aws_manager_filter_manifests_by_date_range(
                   fin.manifests, fin.since_timestamp, fin.until_timestamp)
    /\ fpc' = "done"
    /\ UNCHANGED fin
    /\ compUnchanged

SpecManagerFilter == InitManagerFilter /\ [][ManagerFilterCall]_vars

\* periodEnd >= since AND periodStart <= until, in days
PeriodOverlapsRange(m) ==
    LET p == ManifestPeriod("cur1", m)
    IN  /\ ToOrdinal(p.end) >= ToOrdinal(DateOf(fin.since_timestamp))
        /\ ToOrdinal(p.start) <= ToOrdinal(DateOf(fin.until_timestamp))

\* C29: the date-range filter the component's discovery step calls selects
\* the manifests the closed-interval overlap test periodEnd >= since AND
\* periodStart <= until selects, and not only those whose start date lies
\* within [since, until].
C29_ManagerFilterIsOverlapTest ==
    fpc = "done" => fout = SelectSeq(fin.manifests, PeriodOverlapsRange)

\* the period of January overlaps a range that begins on January 31st, and
\* the manifest was dropped because its start date lies before the range
C29_OverlappingManifestDropped ==
    /\ fpc = "done"
    /\ fin.since_timestamp = DateTime(2024, 1, 31, 0)
    /\ Len(fin.manifests) = 1 /\ fin.manifests[1].assemblyId = "jan"
    /\ fout = <<>>

\* what the filter does select: the manifests whose start date lies within
\* [since, until]
ManagerFilterIsStartWithinRange ==
    fpc = "done" =>
        fout = SelectSeq(fin.manifests,
                   LAMBDA m :
                       LET p == ManifestPeriod("cur1", m)
                       IN  /\ ToOrdinal(p.start) >= ToOrdinal(DateOf(fin.since_timestamp))
                           /\ ToOrdinal(p.start) <= ToOrdinal(DateOf(fin.until_timestamp)))


(***************************************************************************)
(* SpecTemp: the temporary archive copies of _download_and_extract_zip     *)
(* (CUR 1.0) and _download_and_extract_gzip (CUR 2.0), one archive after   *)
(* the other.                                                              *)
(*   fin  = the archive keys                                               *)
(*   fout = [next, temp_files, results]; temp_files holds the index of     *)
(*          every archive whose NamedTemporaryFile(delete=False) exists    *)
(***************************************************************************)
ArchiveKeyPool ==
    { ChunkKey("a", ExtZip, "one_csv"), ChunkKey("b", ExtZip, "no_csv"),
      ChunkKey("c", ExtZip, "corrupt"), ChunkKey("d", ExtZip, "missing"),
      ChunkKey("e", ExtCsvGz, "data"), ChunkKey("f", ExtCsvGz, "corrupt"),
      ChunkKey("g", ExtCsvGz, "missing") }

InitTemp ==
    /\ CompIdle
    /\ fin \in SeqsUpTo(ArchiveKeyPool, MaxArchives)
    /\ fout = [next |-> 1, temp_files |-> {}, results |-> <<>>]
    /\ fpc = "next"

\* self._read_s3_file_contents(s3_key), then the temporary copy is written;
\* a failed download raises before any file is made
DownloadArchive ==
    /\ fpc = "next"
    /\ fout.next <= Len(fin)
    /\ IF fin[fout.next].content = "missing"
       THEN /\ fout' = [fout EXCEPT !.results = Append(@, "raised"), !.next = @ + 1]
            /\ fpc' = "next"
       ELSE /\ fout' = [fout EXCEPT !.temp_files = @ \cup {fout.next}]
            /\ fpc' = "extract"
    /\ UNCHANGED fin
    /\ compUnchanged

\* the archive is opened and unpacked; os.unlink(temp path) is the statement
\* after it, and the ZIP worker looks for its CSV member only then
ExtractArchive ==
    /\ fpc = "extract"
    /\ LET key == fin[fout.next]
       IN  IF key.content = "corrupt"
           THEN fout' = [fout EXCEPT !.results = Append(@, "raised"), !.next = @ + 1]
           ELSE fout' = [fout EXCEPT
                           !.temp_files = @ \ {fout.next},
                           !.results = Append(@,
                               IF KeyEndsWith(key, <<".">> \o ExtZip)
                                  /\ ~download_and_extract_zip(fout.next, key).ok
                               THEN "raised" ELSE "extracted"),
                           !.next = @ + 1]
    /\ fpc' = "next"
    /\ UNCHANGED fin
    /\ compUnchanged

AllArchivesAttempted ==
    /\ fpc = "next"
    /\ fout.next > Len(fin)
    /\ fpc' = "done"
    /\ UNCHANGED <<fin, fout>>
    /\ compUnchanged

SpecTemp == InitTemp /\ [][DownloadArchive \/ ExtractArchive \/ AllArchivesAttempted]_vars

\* C30: after every extraction attempt, successful or failed, the temporary
\* copy of the archive has been deleted.
C30_TempArchiveDeleted ==
    fpc \in {"next", "done"} => fout.temp_files = {}

\* the attempt on a corrupt archive has raised and its temporary copy is
\* still there
C30_CorruptArchiveCopyLeft ==
    /\ fpc = "done"
    /\ \E i \in 1..Len(fin) :
          /\ fin[i].content = "corrupt"
          /\ fout.results[i] = "raised"
          /\ i \in fout.temp_files

\* only the copy of an archive that could not be opened is left behind
OnlyCorruptArchiveCopiesLeft ==
    fpc \in {"next", "done"} =>
        \A i \in fout.temp_files : fin[i].content = "corrupt"

=============================================================================
